---- MODULE Spec2Model ----
(***************************************************************************)
(* Patch-generation-and-application safety pipeline of                     *)
(* drupal-devops-copilot: copilot/guards.py, copilot/codegen/              *)
(* patch_applier.py and copilot/cli/ai_dev_task.py.                        *)
(*                                                                         *)
(* Representation of text.  A Python str is a sequence of tokens.  A token *)
(* is either a single separator character ("/" or "\\") or a maximal run   *)
(* of non-separator characters (a path segment such as "web", "..",        *)
(* ".git", "composer.lock").  Two name tokens are never adjacent, so       *)
(* str.startswith / == on the Python string coincide with prefix / = on    *)
(* the token sequence.  Character-level functions (lstrip of dots,         *)
(* lower()) are given per token.                                           *)
(*                                                                         *)
(* A patch text is the sequence of its lines (text.splitlines(True)).      *)
(* A line is a record: kind says which shape the line has, a and b are the *)
(* paths it names, lead says whether it starts with white space, nl        *)
(* whether it ends with a line terminator.                                 *)
(*                                                                         *)
(* The text an LLM answered with is, for the JSON extraction, the sequence  *)
(* of its characters, where a run of three backquotes and the word json    *)
(* are one element each.                                                   *)
(*                                                                         *)
(* The specifications share the variables; each leaves the parts it does   *)
(* not use idle:                                                           *)
(*   SpecRisk     assess_patch_risk / enforce_patch_guardrails on a text   *)
(*   SpecRiskWide the same, on texts of more header lines                  *)
(*   SpecExtract  one call of _extract_outer_json                          *)
(*   SpecApply    one run of PatchApplier.apply_patch                      *)
(*   SpecManifest one call of _write_files_from_manifest                   *)
(*   SpecMain     one run of ai_dev_task.main, which drives the steps of   *)
(*                apply_patch and of _write_files_from_manifest            *)
(***************************************************************************)
EXTENDS Integers, Sequences, FiniteSets, TLC

VARIABLES
  (* module globals of copilot/guards.py, read from the environment *)
  ALLOWED_PREFIXES, BLOCKED_PREFIXES, MAX_CHANGED_FILES, MAX_TOTAL_LINES,
  (* a call of enforce_patch_guardrails(patch, allow_risk=...) *)
  patch, allow_risk, gpc, risk, gerr,
  (* a PatchApplier (allowed_dirs, allowed_suffixes) and one run of its
     apply_patch(repo_dir, patch_text): apc is the position of the run,
     blocks / kept / clean_patch its locals, tmp_exists says whether the
     scratch file exists, proc is the finished git process, tool_calls the
     number of git processes started, tree the paths whose content in the
     working tree and the index differs from before the call, aerr the
     exception the run raised *)
  allowed_dirs, allowed_suffixes, patch_text, apc, blocks, kept, clean_patch,
  tmp_exists, proc, tool_calls, tree, aerr,
  (* one call _write_files_from_manifest(repo, manifest, allowed_dirs=mf_allowed,
     docroot=docroot): wi is the index of the entry the loop is at, written
     the list it builds, fs_dirs / fs_files the directories and files (with
     content) of the machine, wpc the position of the call, werr the
     exception it raised *)
  docroot, mf_allowed, manifest, wi, written, fs_dirs, fs_files, wpc, werr,
  (* one run of ai_dev_task.main(): the command line and environment
     (allow_outside_custom, force_manifest, llm_disabled), mpc the position
     of the run, rc its return code, manifest_attempts the number of calls of
     _try_manifest_generation, commits the commits created (each the set of
     changed files it records), pushes the number of pushes done *)
  allow_outside_custom, force_manifest, llm_disabled, mpc, rc,
  manifest_attempts, commits, pushes,
  (* one call _extract_outer_json(llm_text): the text as the sequence of its
     characters, xpc the position of the call, xout what it returned or
     raised *)
  llm_text, xpc, xout,
  (* one call of _try_manifest_generation from the extracted text on: raw
     the extracted text and repaired the text after the repair passes (each
     the sequence of its characters), tpc the position of the call, loads
     the texts json.loads was called with, passes the repair passes run,
     content the content string of the parsed manifest, twritten the file
     contents written, terr the exception raised *)
  raw, repaired, tpc, loads, passes, content, twritten, terr,
  (* one run of workflow.main() from the branch on: llm_enabled and dry_run
     are its arguments, wkpc the position of the run, llm_ok what
     run_llm_patch returned *)
  llm_enabled, dry_run, wkpc, llm_ok

guardGlobals == <<ALLOWED_PREFIXES, BLOCKED_PREFIXES, MAX_CHANGED_FILES, MAX_TOTAL_LINES>>
guardVars == <<patch, allow_risk, gpc, risk, gerr>>
applierCfg == <<allowed_dirs, allowed_suffixes>>
applyVars == <<patch_text, apc, blocks, kept, clean_patch, tmp_exists, proc,
               tool_calls, tree, aerr>>
manifestVars == <<docroot, mf_allowed, manifest, wi, written, fs_dirs, fs_files, wpc, werr>>
mainArgs == <<allow_outside_custom, force_manifest, llm_disabled>>
mainVars == <<mpc, rc, manifest_attempts, commits, pushes>>
textVars == <<llm_text, xpc, xout, raw, repaired, tpc, loads, passes, content, twritten, terr>>
workflowVars == <<llm_enabled, dry_run, wkpc, llm_ok>>
vars == <<guardGlobals, guardVars, applierCfg, applyVars, manifestVars, mainArgs, mainVars,
          textVars, workflowVars>>

(* ---------------------------------------------------------------- bounds *)
MaxLines == 3
MaxFiles == 2
TunedMaxChangedFiles == 1
TunedMaxTotalLines == 1
MaxHeaderLines == 4
MaxChars == 5
MaxJsonChars == 6

(* ------------------------------------------------------- string helpers *)
Min(x, y) == IF x < y THEN x ELSE y

(* s[:n] *)
Take(s, n) == SubSeq(s, 1, Min(Len(s), n))

(* str.startswith *)
StartsWith(s, p) == Len(s) >= Len(p) /\ SubSeq(s, 1, Len(p)) = p

(* token.lstrip(".") for the tokens of the model *)
StripLeadingDots(tok) ==
  CASE tok = "."              -> ""
    [] tok = ".."             -> ""
    [] tok = ".git"           -> "git"
    [] tok = ".gitlab-ci.yml" -> "gitlab-ci.yml"
    [] OTHER                  -> tok

(* path.lstrip("./"): leading "." and "/" characters are removed *)
RECURSIVE LStripDotSlash(_)
LStripDotSlash(s) ==
  IF s = <<>> THEN <<>>
  ELSE IF s[1] = "/" \/ StripLeadingDots(s[1]) = "" THEN LStripDotSlash(Tail(s))
  ELSE <<StripLeadingDots(s[1])>> \o Tail(s)

(* ------------------------------------------------------------ lines *)
NoPath == <<>>
Ln(kind, a, b) == [kind |-> kind, a |-> a, b |-> b, lead |-> FALSE, nl |-> TRUE]
DiffLine(a, b) == Ln("diff", a, b)       \* diff --git a/<a> b/<b>
Plus3(b)       == Ln("plus3", NoPath, b) \* +++ b/<b>
Minus3(a)      == Ln("minus3", a, NoPath)\* --- a/<a>
IndexLine      == Ln("index", NoPath, NoPath)    \* index 1a2b3c..4d5e6f 100644
BadIndexLine   == Ln("badindex", NoPath, NoPath) \* index xyz..zzz (not hex)
HunkLine       == Ln("hunk", NoPath, NoPath)     \* @@ -1,1 +1,2 @@
AddLine        == Ln("add", NoPath, NoPath)      \* +text
DelLine        == Ln("del", NoPath, NoPath)      \* -text
ProseLine      == Ln("prose", NoPath, NoPath)    \* text
(* a line behind leading blanks: no pattern anchored at the line start fits *)
Indented(l)    == [l EXCEPT !.lead = TRUE]

(* line.startswith("+++ ") or line.startswith("--- ") *)
IsFileHeader(l) == ~l.lead /\ l.kind \in {"plus3", "minus3"}
(* line.startswith("+") *)
StartsWithPlus(l) == ~l.lead /\ l.kind \in {"plus3", "add"}
(* line.startswith("-") *)
StartsWithMinus(l) == ~l.lead /\ l.kind \in {"minus3", "del"}

(* ------------------------------------------------------------ paths *)
P_notes   == <<"notes", "/", "ABC-1.md">>
P_module  == <<"modules", "/", "custom", "/", "x.module">>
P_vendor  == <<"vendor", "/", "autoload.php">>
P_lock    == <<"composer.lock">>
P_sublock == <<"modules", "/", "custom", "/", "composer.lock">>
P_readme  == <<"README.md">>
P_git     == <<".git", "/", "config">>

(* ============================================================ guards.py *)
_ALLOWED_DEFAULT ==
  << <<"modules", "/", "custom", "/">>, <<"themes", "/", "custom", "/">>,
     <<"profiles", "/", "custom", "/">>, <<"notes", "/">>, <<"server", "/">>,
     <<"ui", "/">> >>
_BLOCKED_DEFAULT == << <<"vendor", "/">>, <<"core", "/">>, <<".git", "/">> >>

HIGH_RISK_FILES ==
  { <<".gitlab-ci.yml">>, <<"composer.json">>, <<"composer.lock">>,
    <<"package.json">>, <<"pnpm-lock.yaml">>, <<"yarn.lock">> }

DefaultMaxChangedFiles == 30
DefaultMaxTotalLines == 2000

(* _DIFF_HEADER_RE.match(line.strip()) *)
_DIFF_HEADER_RE(l) == l.kind = "diff"

RECURSIVE _changed_paths_from_patch(_)
_changed_paths_from_patch(p) ==
  IF p = <<>> THEN <<>>
  ELSE (IF _DIFF_HEADER_RE(Head(p)) THEN <<Head(p).b>> ELSE <<>>)
       \o _changed_paths_from_patch(Tail(p))

RECURSIVE CountAdded(_)
CountAdded(p) ==
  IF p = <<>> THEN 0
  ELSE (IF ~IsFileHeader(Head(p)) /\ StartsWithPlus(Head(p)) THEN 1 ELSE 0)
       + CountAdded(Tail(p))

RECURSIVE CountRemoved(_)
CountRemoved(p) ==
  IF p = <<>> THEN 0
  ELSE (IF ~IsFileHeader(Head(p)) /\ ~StartsWithPlus(Head(p)) /\ StartsWithMinus(Head(p))
        THEN 1 ELSE 0)
       + CountRemoved(Tail(p))

_count_added_removed(p) == <<CountAdded(p), CountRemoved(p)>>

_is_prefix(path, prefixes) ==
  LET stripped == LStripDotSlash(path)
  IN \E i \in DOMAIN prefixes : prefixes[i] # <<>> /\ StartsWith(stripped, prefixes[i])

(* Frag with the ellipsis from three paths on *)
Frag_EllipsisFromThree(tag, paths, nfiles, nlines) ==
  [tag |-> tag, paths |-> Take(paths, 3), more |-> Len(paths) >= 3,
   files |-> nfiles, lines |-> nlines]
(* one fragment of reason_parts *)
Frag(tag, paths, nfiles, nlines) ==
  [tag |-> tag, paths |-> Take(paths, 3), more |-> Len(paths) > 3,
   files |-> nfiles, lines |-> nlines]

(* RiskLevel with the size comparisons made non-strict *)
RiskLevel_SizeNonStrict(files, blocked, out_of_scope, high_risk, added, removed) ==
  LET oversize == Len(files) >= MAX_CHANGED_FILES \/ (added + removed) >= MAX_TOTAL_LINES
      level1   == IF blocked # <<>> THEN "high" ELSE "low"
      level2   == IF high_risk # <<>> THEN "high" ELSE level1
      level3   == IF oversize THEN "high" ELSE level2
      level4   == IF level3 # "high" /\ out_of_scope # <<>> THEN "medium" ELSE level3
  IN IF files = <<>> THEN "low" ELSE level4

(* RiskLevel without the final "if not files" rule *)
RiskLevel_NoEmptyRule(files, blocked, out_of_scope, high_risk, added, removed) ==
  LET oversize == Len(files) > MAX_CHANGED_FILES \/ (added + removed) > MAX_TOTAL_LINES
      level1   == IF blocked # <<>> THEN "high" ELSE "low"
      level2   == IF high_risk # <<>> THEN "high" ELSE level1
      level3   == IF oversize THEN "high" ELSE level2
  IN IF level3 # "high" /\ out_of_scope # <<>> THEN "medium" ELSE level3

(* the level rules of assess_patch_risk ("Base risk rules") *)
RiskLevel(files, blocked, out_of_scope, high_risk, added, removed) ==
  LET oversize == Len(files) > MAX_CHANGED_FILES \/ (added + removed) > MAX_TOTAL_LINES
      level1   == IF blocked # <<>> THEN "high" ELSE "low"
      level2   == IF high_risk # <<>> THEN "high" ELSE level1
      level3   == IF oversize THEN "high" ELSE level2
      level4   == IF level3 # "high" /\ out_of_scope # <<>> THEN "medium" ELSE level3
  IN IF files = <<>> THEN "low" ELSE level4

(* reason_parts of assess_patch_risk, "; ".join(reason_parts) or "OK" *)
RiskReason(files, blocked, out_of_scope, high_risk, added, removed) ==
  LET oversize == Len(files) > MAX_CHANGED_FILES \/ (added + removed) > MAX_TOTAL_LINES
      level3   == IF blocked # <<>> \/ high_risk # <<>> \/ oversize THEN "high" ELSE "low"
      parts    ==
           (IF blocked # <<>> THEN <<Frag("blocked paths", blocked, 0, 0)>> ELSE <<>>)
        \o (IF high_risk # <<>> THEN <<Frag("high-risk files", high_risk, 0, 0)>> ELSE <<>>)
        \o (IF oversize
            THEN <<Frag("size limit exceeded", <<>>, Len(files), added + removed)>> ELSE <<>>)
        \o (IF level3 # "high" /\ out_of_scope # <<>>
            THEN <<Frag("out-of-scope paths", out_of_scope, 0, 0)>> ELSE <<>>)
        \o (IF files = <<>> THEN <<Frag("no file headers found", <<>>, 0, 0)>> ELSE <<>>)
  IN IF parts = <<>> THEN <<Frag("OK", <<>>, 0, 0)>> ELSE parts

(* f in HIGH_RISK_FILES *)
IsHighRiskFile(f) == f \in HIGH_RISK_FILES

assess_patch_risk(p) ==
  LET files        == _changed_paths_from_patch(p)
      ar           == _count_added_removed(p)
      added        == ar[1]
      removed      == ar[2]
      blocked      == SelectSeq(files, LAMBDA f : _is_prefix(f, BLOCKED_PREFIXES))
      out_of_scope == SelectSeq(files, LAMBDA f : ~_is_prefix(f, ALLOWED_PREFIXES))
      high_risk    == SelectSeq(files, IsHighRiskFile)
  IN [files |-> files, total_added |-> added, total_removed |-> removed,
      blocked |-> blocked, out_of_scope |-> out_of_scope, high_risk |-> high_risk,
      risk_level |-> RiskLevel(files, blocked, out_of_scope, high_risk, added, removed),
      reason |-> RiskReason(files, blocked, out_of_scope, high_risk, added, removed)]

NoRisk == [files |-> <<>>, total_added |-> 0, total_removed |-> 0,
           blocked |-> <<>>, out_of_scope |-> <<>>, high_risk |-> <<>>,
           risk_level |-> "none", reason |-> <<>>]
NoError == [type |-> "none", reason |-> <<>>]

(* the globals as the import of guards.py sets them: the path lists at their
   defaults, the thresholds at their defaults or tuned by the environment *)
InitGuardGlobals ==
  /\ ALLOWED_PREFIXES = _ALLOWED_DEFAULT
  /\ BLOCKED_PREFIXES = _BLOCKED_DEFAULT
  /\ MAX_CHANGED_FILES \in {TunedMaxChangedFiles, DefaultMaxChangedFiles}
  /\ MAX_TOTAL_LINES \in {TunedMaxTotalLines, DefaultMaxTotalLines}

(* tuple(p.strip() for p in (os.getenv(NAME) or default).split(",") if p.strip())
   for an environment where NAME is unset, is "" or is ",": an empty value
   falls back to the default, a value of separators alone leaves no prefix *)
PrefixesFromEnv(value, default) ==
  CASE value = "unset" -> default
    [] value = ""      -> default
    [] value = ","     -> <<>>

(* the globals as the import of guards.py sets them from the environment *)
EnvGuardGlobals ==
  /\ ALLOWED_PREFIXES \in { PrefixesFromEnv(v, _ALLOWED_DEFAULT) : v \in {"unset", "", ","} }
  /\ BLOCKED_PREFIXES \in { PrefixesFromEnv(v, _BLOCKED_DEFAULT) : v \in {"unset", "", ","} }
  /\ MAX_CHANGED_FILES \in {TunedMaxChangedFiles, DefaultMaxChangedFiles}
  /\ MAX_TOTAL_LINES \in {TunedMaxTotalLines, DefaultMaxTotalLines}

(* the globals when the environment sets none of them *)
DefaultGuardGlobals ==
  /\ ALLOWED_PREFIXES = _ALLOWED_DEFAULT
  /\ BLOCKED_PREFIXES = _BLOCKED_DEFAULT
  /\ MAX_CHANGED_FILES = DefaultMaxChangedFiles
  /\ MAX_TOTAL_LINES = DefaultMaxTotalLines

NoExtract == [value |-> <<>>, error |-> "none", msg |-> ""]

(* no _extract_outer_json call is in progress *)
NoTextError == [type |-> "none", msg |-> "", snippet |-> <<>>]

(* no _try_manifest_generation call is in progress *)
IdleRepair ==
  /\ raw = <<>> /\ repaired = <<>> /\ tpc = "idle" /\ loads = <<>> /\ passes = <<>>
  /\ content = <<>> /\ twritten = <<>> /\ terr = NoTextError

IdleExtract == llm_text = <<>> /\ xpc = "idle" /\ xout = NoExtract

IdleText == IdleExtract /\ IdleRepair

(* no run of workflow.main() is in progress *)
IdleWorkflow == llm_enabled = FALSE /\ dry_run = FALSE /\ wkpc = "idle" /\ llm_ok = FALSE

(* no enforce_patch_guardrails call is in progress *)
IdleGuards ==
  /\ patch = <<>> /\ allow_risk = FALSE /\ gpc = "idle"
  /\ risk = NoRisk /\ gerr = NoError

SeqsUpTo(S, n) == UNION { [1..k -> S] : k \in 0..n }

(* ------------------------------------------------------ path resolution *)
(* the segments of a path: its tokens between separators *)
Segments(s) == SelectSeq(s, LAMBDA t : t # "/")

(* "." segments dropped, "seg/.." pairs cancelled; a ".." that climbs above
   the start is kept at the front *)
RECURSIVE ResolveFrom(_, _)
ResolveFrom(segs, acc) ==
  IF segs = <<>> THEN acc
  ELSE IF Head(segs) \in {".", ""} THEN ResolveFrom(Tail(segs), acc)
  ELSE IF Head(segs) = ".."
       THEN IF acc = <<>> \/ acc[Len(acc)] = ".."
            THEN ResolveFrom(Tail(segs), acc \o <<"..">>)
            ELSE ResolveFrom(Tail(segs), SubSeq(acc, 1, Len(acc) - 1))
  ELSE ResolveFrom(Tail(segs), acc \o <<Head(segs)>>)

(* the location, relative to the repository root, that a relative path names *)
Resolved(path) == ResolveFrom(Segments(path), <<>>)

(* loc lies strictly inside directory dir (both resolved segment lists) *)
StrictlyInside(loc, dir) == Len(loc) > Len(dir) /\ SubSeq(loc, 1, Len(dir)) = dir

(* ================================================ codegen/patch_applier.py *)
P_custom  == <<"web", "/", "modules", "/", "custom", "/", "x.module">>
P_escape  == <<"web", "/", "modules", "/", "custom", "/", "..", "/", "..", "/", "..",
               "/", "composer.json">>
D_custom  == <<"web", "/", "modules", "/", "custom", "/">>
D_notes   == <<"notes">>
S_module  == ".module"

(* PatchApplier.__init__: d if d.endswith("/") else f"{d}/" *)
NormalizeDir(d) == IF d # <<>> /\ d[Len(d)] = "/" THEN d ELSE d \o <<"/">>
NormalizeDirs(ds) == [i \in DOMAIN ds |-> NormalizeDir(ds[i])]

(* the suffixes of the model that a token ends with *)
TokenSuffixes(tok) ==
  CASE tok = "x.module"     -> {".module"}
    [] tok = "autoload.php" -> {".php"}
    [] tok = "ABC-1.md"     -> {".md"}
    [] tok = "README.md"    -> {".md"}
    [] tok = "composer.json" -> {".json"}
    [] tok = "composer.lock" -> {".lock"}
    [] OTHER                -> {}

(* str.endswith, for a suffix that lies within the last token *)
EndsWith(s, suf) == s # <<>> /\ suf \in TokenSuffixes(s[Len(s)])

(* DIFF_START as re.search would use it: the marker anywhere in the line *)
DIFF_START_Unanchored(l) == l.kind = "diff"
(* DIFF_START.match(line) *)
DIFF_START(l) == l.kind = "diff" /\ ~l.lead

(* the lines up to the next diff start or the end *)
RECURSIVE BlockBody(_)
BlockBody(ls) ==
  IF ls = <<>> \/ DIFF_START(Head(ls)) THEN <<>>
  ELSE <<Head(ls)>> \o BlockBody(Tail(ls))

(* for ln in block: if ln.startswith("+++ b/"): tgt = ln.strip()[6:]; break *)
RECURSIVE BlockTarget(_, _)
BlockTarget(block, b_path) ==
  IF block = <<>> THEN b_path
  ELSE IF Head(block).kind = "plus3" /\ ~Head(block).lead THEN Head(block).b
  ELSE BlockTarget(Tail(block), b_path)

RECURSIVE _parse_blocks(_)
_parse_blocks(ls) ==
  IF ls = <<>> THEN <<>>
  ELSE IF ~DIFF_START(Head(ls)) THEN _parse_blocks(Tail(ls))
  ELSE LET block == <<Head(ls)>> \o BlockBody(Tail(ls))
       IN <<[tgt |-> BlockTarget(block, Head(ls).b), block |-> block]>>
          \o _parse_blocks(SubSeq(ls, Len(block) + 1, Len(ls)))

(* _accept_path that takes a path which passes either configured list *)
_accept_path_Either(path) ==
  \/ allowed_dirs = <<>> /\ allowed_suffixes = <<>>
  \/ \E i \in DOMAIN allowed_dirs : StartsWith(path, allowed_dirs[i])
  \/ \E i \in DOMAIN allowed_suffixes : EndsWith(path, allowed_suffixes[i])
_accept_path(path) ==
  /\ allowed_dirs # <<>> =>
       \E i \in DOMAIN allowed_dirs : StartsWith(path, allowed_dirs[i])
  /\ allowed_suffixes # <<>> =>
       \E i \in DOMAIN allowed_suffixes : EndsWith(path, allowed_suffixes[i])

(* INDEX_LINE.match(ln): only a well-formed index line *)
StartsWithIndex_WellFormed(l) == l.kind = "index" /\ ~l.lead
(* ln.startswith("index ") *)
StartsWithIndex(l) == l.kind \in {"index", "badindex"} /\ ~l.lead

_clean_block(block) == SelectSeq(block, LAMBDA l : ~StartsWithIndex(l))

(* "\n" on a line of its own *)
EmptyLine == Ln("empty", NoPath, NoPath)

(* the lines of "".join(out) *)
RECURSIVE _assemble(_)
_assemble(bs) ==
  IF bs = <<>> THEN <<>>
  ELSE LET b == Head(bs)
       IN (IF b = <<>> THEN <<EmptyLine>>
           ELSE [b EXCEPT ![Len(b)].nl = TRUE])
          \o _assemble(Tail(bs))

(* kept: the cleaned blocks whose target passes _accept_path *)
RECURSIVE FilterAndClean(_)
FilterAndClean(bs) ==
  IF bs = <<>> THEN <<>>
  ELSE (IF _accept_path(Head(bs).tgt) THEN <<_clean_block(Head(bs).block)>> ELSE <<>>)
       \o FilterAndClean(Tail(bs))

NoApplyError == [type |-> "none", msg |-> "", returncode |-> 0, stderr |-> "",
                 snippet |-> <<>>]
(* PatchApplyError("No eligible changes found after guardrails filtering.") *)
RejectionError ==
  [NoApplyError EXCEPT !.type = "PatchApplyError",
                       !.msg = "No eligible changes found after guardrails filtering."]
NoProc == [returncode |-> 0, stderr |-> ""]
SnippetLines == 60

(* the files a diff block makes git change: the b side of its header and the
   new-file side of every file header it contains *)
GitTargets(block) ==
  { block[i].b : i \in { j \in DOMAIN block :
                              block[j].kind \in {"diff", "plus3"} /\ ~block[j].lead } }

(* GitApply that keeps the blocks that applied when another one failed
   (what git apply does under --reject) *)
GitApply_Partial(doc, bad, t) ==
  LET bs == _parse_blocks(doc)
  IN IF bad \cap DOMAIN bs = {}
     THEN [returncode |-> 0, stderr |-> "",
           tree |-> t \cup UNION { GitTargets(bs[i].block) : i \in DOMAIN bs }]
     ELSE [returncode |-> 1, stderr |-> "error: patch failed",
           tree |-> t \cup UNION { GitTargets(bs[i].block) : i \in DOMAIN bs \ bad }]

(* git -C repo apply --index tmp_path, on a document whose blocks numbered
   in bad do not apply cleanly: every block is applied, or none is *)
GitApply(doc, bad, t) ==
  LET bs == _parse_blocks(doc)
  IN IF bad \cap DOMAIN bs = {}
     THEN [returncode |-> 0, stderr |-> "",
           tree |-> t \cup UNION { GitTargets(bs[i].block) : i \in DOMAIN bs }]
     ELSE [returncode |-> 1, stderr |-> "error: patch failed", tree |-> t]

(* ====================================================== cli/ai_dev_task.py *)
(* the repository root, as a resolved absolute location (segments from "/") *)
REPO == <<"srv", "repo">>

M_module == <<"modules", "/", "custom", "/", "x.module">>
M_web    == <<"web", "/", "modules", "/", "custom", "/", "x.module">>
M_upper  == <<"WEB", "/", "modules", "/", "custom", "/", "x.module">>
M_root   == <<".">>
M_climb  == <<"..", "/", "etc">>
M_slash  == <<"/", "README.md">>
M_bslash == <<"\\", "etc">>
M_inner  == <<"web", "/", "..", "/", "x.module">>
M_docroot == <<"docroot", "/", "modules", "/", "custom", "/", "x.module">>
M_readme == <<"web", "/", "modules", "/", "custom", "/", "README.md">>

(* token.lower() for the tokens of the model *)
Lower(tok) ==
  CASE tok = "WEB"       -> "web"
    [] tok = "README.md" -> "readme.md"
    [] OTHER             -> tok
LowerStr(s) == [i \in DOMAIN s |-> Lower(s[i])]

(* s.lstrip("/") *)
RECURSIVE LStripSlash(_)
LStripSlash(s) == IF s # <<>> /\ Head(s) = "/" THEN LStripSlash(Tail(s)) ELSE s

(* s.rstrip("/") *)
RECURSIVE RStripSlash(_)
RStripSlash(s) ==
  IF s # <<>> /\ s[Len(s)] = "/" THEN RStripSlash(SubSeq(s, 1, Len(s) - 1)) ELSE s

(* s.replace("\\", "/") *)
ReplaceBackslash(s) == [i \in DOMAIN s |-> IF s[i] = "\\" THEN "/" ELSE s[i]]

(* the normalization without the "modules/" case *)
_normalize_repo_path_RootsOnly(p, root) ==
  LET q == ReplaceBackslash(LStripSlash(p))
  IN IF StartsWith(q, <<"docroot", "/">>) THEN <<root>> \o Tail(q)
     ELSE IF StartsWith(q, <<"web", "/">>) THEN <<root>> \o Tail(q)
     ELSE q

_normalize_repo_path(p, root) ==
  LET q == ReplaceBackslash(LStripSlash(p))
  IN IF StartsWith(q, <<"docroot", "/">>) THEN <<root>> \o Tail(q)
     ELSE IF StartsWith(q, <<"web", "/">>) THEN <<root>> \o Tail(q)
     ELSE IF StartsWith(q, <<"modules", "/">>) THEN <<root, "/">> \o q
     ELSE q

(* Path.resolve() of an absolute path given by its segments: "." dropped,
   ".." removes the segment before it and stays at "/" *)
RECURSIVE AbsResolveFrom(_, _)
AbsResolveFrom(segs, acc) ==
  IF segs = <<>> THEN acc
  ELSE IF Head(segs) \in {".", ""} THEN AbsResolveFrom(Tail(segs), acc)
  ELSE IF Head(segs) = ".."
       THEN AbsResolveFrom(Tail(segs), SubSeq(acc, 1, Len(acc) - 1))
  ELSE AbsResolveFrom(Tail(segs), acc \o <<Head(segs)>>)

(* (repo / p_norm).resolve(): an absolute p_norm replaces the repository root *)
ResolveTarget(p_norm) ==
  IF p_norm # <<>> /\ Head(p_norm) = "/"
  THEN AbsResolveFrom(Segments(p_norm), <<>>)
  ELSE AbsResolveFrom(Segments(p_norm), REPO)

(* str(path) of a relative path: its segments joined by "/", "." when empty *)
RECURSIVE JoinSegments(_)
JoinSegments(segs) ==
  IF segs = <<>> THEN <<>>
  ELSE IF Len(segs) = 1 THEN segs
  ELSE <<Head(segs), "/">> \o JoinSegments(Tail(segs))
RelStr(segs) == IF segs = <<>> THEN <<".">> ELSE JoinSegments(segs)

_allowed_path(target, allowed) ==
  /\ StartsWith(target, REPO)
  /\ allowed # <<>> =>
       LET rel == LowerStr(RelStr(SubSeq(target, Len(REPO) + 1, Len(target))))
       IN \E i \in DOMAIN allowed :
            LET d_norm == LowerStr(RStripSlash(LStripSlash(allowed[i])))
            IN StartsWith(rel, d_norm \o <<"/">>) \/ rel = d_norm

(* os.path.splitext(p_norm)[1].lower() in ('.php', '.module', '.inc') *)
IsPhpPath(p_norm) ==
  p_norm # <<>> /\ TokenSuffixes(Lower(p_norm[Len(p_norm)])) \cap {".php", ".module", ".inc"} # {}

(* _php_sanitize for the contents of the model: line ends normalized, one
   trailing newline, no backslash before a PHP variable *)
_php_sanitize(c) ==
  CASE c = "<?php"             -> "<?php\n"
    [] c = "<?php\r\n"         -> "<?php\n"
    [] c = "<?php\n\\$x = 1;\n" -> "<?php\n$x = 1;\n"
    [] OTHER                   -> c

(* an element of the files array: a dict whose "path" and "content" are of
   JSON type ptype and ctype (the values matter when they are strings), or
   something that is not a dict *)
Entry(p, c) == [shape |-> "dict", ptype |-> "str", path |-> p, ctype |-> "str", content |-> c]
EntryNoPath(c) == [shape |-> "dict", ptype |-> "null", path |-> <<>>, ctype |-> "str", content |-> c]
NotADict == [shape |-> "str", ptype |-> "null", path |-> <<>>, ctype |-> "null", content |-> ""]
(* isinstance(p, str) and isinstance(c, str) *)
BothStrings(e) == e.ptype = "str" /\ e.ctype = "str"

NoWriteError == [type |-> "none", msg |-> "", path |-> <<>>]

(* the proper ancestors of a location: what parent.mkdir(parents=True) needs *)
Ancestors(loc) == { SubSeq(loc, 1, k) : k \in 0..(Len(loc) - 1) }
FileLocs == { f.loc : f \in fs_files }

(* ---- _write_files_from_manifest, step by step ---- *)
(* files = manifest.get("files"); not a non-empty list: raise ValueError *)
wf_no_files ==
  /\ wpc = "start"
  /\ manifest.files = <<>>
  /\ wpc' = "raised"
  /\ werr' = [NoWriteError EXCEPT !.type = "ValueError",
                                  !.msg = "Manifest has no 'files' array"]
  /\ UNCHANGED <<docroot, mf_allowed, manifest, wi, written, fs_dirs, fs_files>>
  /\ UNCHANGED <<guardGlobals, guardVars, applierCfg, applyVars, mainArgs, workflowVars, mainVars, textVars>>

wf_begin ==
  /\ wpc = "start"
  /\ manifest.files # <<>>
  /\ wpc' = "loop"
  /\ wi' = 1
  /\ written' = <<>>
  /\ UNCHANGED <<docroot, mf_allowed, manifest, fs_dirs, fs_files, werr>>
  /\ UNCHANGED <<guardGlobals, guardVars, applierCfg, applyVars, mainArgs, workflowVars, mainVars, textVars>>

(* entry.get on something that is not a dict *)
wf_entry_not_dict ==
  /\ wpc = "loop" /\ wi <= Len(manifest.files)
  /\ manifest.files[wi].shape # "dict"
  /\ wpc' = "raised"
  /\ werr' = [NoWriteError EXCEPT !.type = "AttributeError", !.msg = "no attribute 'get'"]
  /\ UNCHANGED <<docroot, mf_allowed, manifest, wi, written, fs_dirs, fs_files>>
  /\ UNCHANGED <<guardGlobals, guardVars, applierCfg, applyVars, mainArgs, workflowVars, mainVars, textVars>>

(* if not isinstance(p, str) or not isinstance(c, str): continue *)
wf_entry_skip ==
  /\ wpc = "loop" /\ wi <= Len(manifest.files)
  /\ LET e == manifest.files[wi]
     IN e.shape = "dict" /\ ~BothStrings(e)
  /\ wi' = wi + 1
  /\ UNCHANGED <<docroot, mf_allowed, manifest, written, fs_dirs, fs_files, wpc, werr>>
  /\ UNCHANGED <<guardGlobals, guardVars, applierCfg, applyVars, mainArgs, workflowVars, mainVars, textVars>>

(* if not _allowed_path(...): raise ValueError("Path not allowed ...") *)
wf_entry_reject ==
  /\ wpc = "loop" /\ wi <= Len(manifest.files)
  /\ LET e == manifest.files[wi]
     IN /\ e.shape = "dict" /\ BothStrings(e)
        /\ LET p_norm == _normalize_repo_path(e.path, docroot)
           IN /\ ~_allowed_path(ResolveTarget(p_norm), mf_allowed)
              /\ werr' = [type |-> "ValueError", msg |-> "Path not allowed by guardrails",
                          path |-> p_norm]
  /\ wpc' = "raised"
  /\ UNCHANGED <<docroot, mf_allowed, manifest, wi, written, fs_dirs, fs_files>>
  /\ UNCHANGED <<guardGlobals, guardVars, applierCfg, applyVars, mainArgs, workflowVars, mainVars, textVars>>

(* target.parent.mkdir(parents=True, exist_ok=True); target.write_text(c);
   written.append(target) -- or the OSError of mkdir / write_text *)
wf_entry_write ==
  /\ wpc = "loop" /\ wi <= Len(manifest.files)
  /\ LET e == manifest.files[wi]
     IN /\ e.shape = "dict" /\ BothStrings(e)
        /\ LET p_norm == _normalize_repo_path(e.path, docroot)
               target == ResolveTarget(p_norm)
               c      == IF IsPhpPath(p_norm) THEN _php_sanitize(e.content) ELSE e.content
           IN /\ _allowed_path(target, mf_allowed)
              /\ IF Ancestors(target) \cap FileLocs # {}
                 THEN /\ wpc' = "raised"
                      /\ werr' = [NoWriteError EXCEPT !.type = "FileExistsError"]
                      /\ UNCHANGED <<wi, written, fs_dirs, fs_files>>
                 ELSE IF target \in fs_dirs
                 THEN /\ wpc' = "raised"
                      /\ werr' = [NoWriteError EXCEPT !.type = "IsADirectoryError"]
                      /\ fs_dirs' = fs_dirs \cup Ancestors(target)
                      /\ UNCHANGED <<wi, written, fs_files>>
                 ELSE /\ fs_dirs' = fs_dirs \cup Ancestors(target)
                      /\ fs_files' = { f \in fs_files : f.loc # target }
                                       \cup { [loc |-> target, content |-> c] }
                      /\ written' = Append(written, target)
                      /\ wi' = wi + 1
                      /\ UNCHANGED <<wpc, werr>>
  /\ UNCHANGED <<docroot, mf_allowed, manifest>>
  /\ UNCHANGED <<guardGlobals, guardVars, applierCfg, applyVars, mainArgs, workflowVars, mainVars, textVars>>

(* return written *)
wf_return ==
  /\ wpc = "loop" /\ wi > Len(manifest.files)
  /\ wpc' = "returned"
  /\ UNCHANGED <<docroot, mf_allowed, manifest, wi, written, fs_dirs, fs_files, werr>>
  /\ UNCHANGED <<guardGlobals, guardVars, applierCfg, applyVars, mainArgs, workflowVars, mainVars, textVars>>

(* the directories of a checkout whose document root is root *)
CheckoutDirs(root) == Ancestors(REPO) \cup {REPO, REPO \o <<root>>, REPO \o <<".git">>}

(* no _write_files_from_manifest call is in progress *)
IdleManifest ==
  /\ docroot = "web" /\ mf_allowed = <<>> /\ manifest = [files |-> <<>>]
  /\ wi = 0 /\ written = <<>> /\ fs_dirs = CheckoutDirs("web") /\ fs_files = {}
  /\ wpc = "idle" /\ werr = NoWriteError

(* no run of main() is in progress *)
IdleMain ==
  /\ allow_outside_custom = FALSE /\ force_manifest = FALSE /\ llm_disabled = FALSE
  /\ mpc = "idle" /\ rc = -1 /\ manifest_attempts = 0 /\ commits = <<>> /\ pushes = 0

(* ---- apply_patch, step by step ---- *)
ap_parse ==
  /\ apc = "start"
  /\ blocks' = _parse_blocks(patch_text)
  /\ apc' = "Parsed"
  /\ UNCHANGED <<patch_text, kept, clean_patch, tmp_exists, proc, tool_calls, tree, aerr>>
  /\ UNCHANGED <<applierCfg, guardGlobals, guardVars, manifestVars, mainArgs, workflowVars, mainVars, textVars>>

ap_filter ==
  /\ apc = "Parsed"
  /\ kept' = FilterAndClean(blocks)
  /\ apc' = "Filtered"
  /\ UNCHANGED <<patch_text, blocks, clean_patch, tmp_exists, proc, tool_calls, tree, aerr>>
  /\ UNCHANGED <<applierCfg, guardGlobals, guardVars, manifestVars, mainArgs, workflowVars, mainVars, textVars>>

(* if not kept: raise PatchApplyError("No eligible changes ...") *)
ap_reject ==
  /\ apc = "Filtered"
  /\ kept = <<>>
  /\ apc' = "Rejected"
  /\ aerr' = RejectionError
  /\ UNCHANGED <<patch_text, blocks, kept, clean_patch, tmp_exists, proc, tool_calls, tree>>
  /\ UNCHANGED <<applierCfg, guardGlobals, guardVars, manifestVars, mainArgs, workflowVars, mainVars, textVars>>

ap_assemble ==
  /\ apc = "Filtered"
  /\ kept # <<>>
  /\ clean_patch' = _assemble(kept)
  /\ apc' = "Assembled"
  /\ UNCHANGED <<patch_text, blocks, kept, tmp_exists, proc, tool_calls, tree, aerr>>
  /\ UNCHANGED <<applierCfg, guardGlobals, guardVars, manifestVars, mainArgs, workflowVars, mainVars, textVars>>

(* with tempfile.NamedTemporaryFile(...) as tf: tf.write(clean_patch) *)
ap_write_scratch ==
  /\ apc = "Assembled"
  /\ tmp_exists' = TRUE
  /\ apc' = "Scratch"
  /\ UNCHANGED <<patch_text, blocks, kept, clean_patch, proc, tool_calls, tree, aerr>>
  /\ UNCHANGED <<applierCfg, guardGlobals, guardVars, manifestVars, mainArgs, workflowVars, mainVars, textVars>>

(* the file was created (delete=False) and tf.write raises OSError *)
ap_write_scratch_fails ==
  /\ apc = "Assembled"
  /\ tmp_exists' = TRUE
  /\ apc' = "Errored"
  /\ aerr' = [NoApplyError EXCEPT !.type = "OSError", !.msg = "write failed"]
  /\ UNCHANGED <<patch_text, blocks, kept, clean_patch, proc, tool_calls, tree>>
  /\ UNCHANGED <<applierCfg, guardGlobals, guardVars, manifestVars, mainArgs, workflowVars, mainVars, textVars>>

(* subprocess.run raises OSError (git cannot be started); finally: unlink *)
ap_run_cannot_launch ==
  /\ apc = "Scratch"
  /\ apc' = "Errored"
  /\ aerr' = [NoApplyError EXCEPT !.type = "OSError", !.msg = "cannot launch git"]
  /\ tmp_exists' = FALSE
  /\ UNCHANGED <<patch_text, blocks, kept, clean_patch, proc, tool_calls, tree>>
  /\ UNCHANGED <<applierCfg, guardGlobals, guardVars, manifestVars, mainArgs, workflowVars, mainVars, textVars>>

(* proc = subprocess.run(cmd); returncode 0 or not; finally: unlink *)
ap_run ==
  /\ apc = "Scratch"
  /\ \E bad \in SUBSET (1..MaxLines) :
       LET r == GitApply(clean_patch, bad, tree)
       IN /\ proc' = [returncode |-> r.returncode, stderr |-> r.stderr]
          /\ tree' = r.tree
          /\ IF r.returncode # 0
             THEN /\ apc' = "AppliedFailed"
                  /\ aerr' = [type |-> "PatchApplyError", msg |-> "Command failed",
                              returncode |-> r.returncode, stderr |-> r.stderr,
                              snippet |-> Take(clean_patch, SnippetLines)]
             ELSE /\ apc' = "AppliedOk"
                  /\ aerr' = aerr
  /\ tool_calls' = tool_calls + 1
  /\ tmp_exists' = FALSE
  /\ UNCHANGED <<patch_text, blocks, kept, clean_patch>>
  /\ UNCHANGED <<applierCfg, guardGlobals, guardVars, manifestVars, mainArgs, workflowVars, mainVars, textVars>>

(* ---- inputs of the applier ---- *)
ApplyLines ==
  { DiffLine(P_custom, P_custom), DiffLine(P_vendor, P_vendor),
    DiffLine(P_notes, P_notes), DiffLine(P_escape, P_escape),
    Indented(DiffLine(P_vendor, P_vendor)),
    Plus3(P_custom), Plus3(P_vendor), IndexLine, BadIndexLine, HunkLine }

(* a text: every line but the last ends with a terminator *)
Texts(S, n) ==
  { IF t = <<>> THEN t ELSE [t EXCEPT ![Len(t)].nl = fin] :
      t \in SeqsUpTo(S, n), fin \in BOOLEAN }

(* no apply_patch run is in progress *)
IdleApplier ==
  /\ allowed_dirs = <<>> /\ allowed_suffixes = <<>>
  /\ patch_text = <<>> /\ apc = "idle" /\ blocks = <<>> /\ kept = <<>>
  /\ clean_patch = <<>> /\ tmp_exists = FALSE /\ proc = NoProc
  /\ tool_calls = 0 /\ tree = {} /\ aerr = NoApplyError

InitApply ==
  /\ IdleText
  /\ IdleWorkflow
  /\ DefaultGuardGlobals
  /\ IdleMain
  /\ IdleGuards
  /\ IdleManifest
  /\ allowed_dirs \in { NormalizeDirs(ds) : ds \in { <<>>, <<D_custom>>, <<D_notes>> } }
  /\ allowed_suffixes \in { <<>>, <<S_module>> }
  /\ patch_text \in Texts(ApplyLines, MaxLines)
  /\ apc = "start" /\ blocks = <<>> /\ kept = <<>>
  /\ clean_patch = <<>> /\ tmp_exists = FALSE /\ proc = NoProc
  /\ tool_calls = 0 /\ tree = {} /\ aerr = NoApplyError

NextApply ==
  \/ ap_parse \/ ap_filter \/ ap_reject \/ ap_assemble
  \/ ap_write_scratch \/ ap_write_scratch_fails
  \/ ap_run_cannot_launch \/ ap_run

SpecApply == InitApply /\ [][NextApply]_vars

(* ----------------------------------------------- claims on the applier *)
(* the paths a document names as change targets: both sides of every
   diff --git header and the path of every ---/+++ file header *)
NamedTargets(doc) ==
  UNION { {doc[i].a, doc[i].b} \ {NoPath} :
            i \in { j \in DOMAIN doc :
                       doc[j].kind \in {"diff", "plus3", "minus3"} /\ ~doc[j].lead } }

InsideAllowedDirs(path) ==
  \E i \in DOMAIN allowed_dirs :
     StrictlyInside(Resolved(path), Resolved(allowed_dirs[i]))

(* C1: with a non-empty allowed_dirs, the document handed to git names as
   change targets only paths inside an allowed directory once ".." is
   resolved, and the apply changes no file outside the allowed directories. *)
C1_DocumentNamesOnlyAllowedTargets ==
  (allowed_dirs # <<>> /\ tool_calls > 0) =>
     /\ \A p \in NamedTargets(clean_patch) : InsideAllowedDirs(p)
     /\ \A p \in tree : InsideAllowedDirs(p)

Ended == apc \in {"Rejected", "AppliedOk", "AppliedFailed", "Errored"}

(* C9: a run ends Rejected (PatchApplyError, no scratch file, git never
   started) exactly when no block survives the filter; otherwise git is
   started exactly once and the run ends AppliedOk on exit code 0 and
   AppliedFailed otherwise, the error carrying the exit code, git's stderr
   and the first 60 lines of the sanitized patch. *)
C9_RunEndsInOneOfThreeStates ==
  Ended =>
    IF FilterAndClean(_parse_blocks(patch_text)) = <<>>
    THEN /\ apc = "Rejected"
         /\ aerr.type = "PatchApplyError"
         /\ ~tmp_exists /\ tool_calls = 0
    ELSE /\ tool_calls = 1
         /\ apc \in {"AppliedOk", "AppliedFailed"}
         /\ apc = "AppliedOk" <=> proc.returncode = 0
         /\ apc = "AppliedFailed" =>
               /\ aerr.type = "PatchApplyError"
               /\ aerr.returncode = proc.returncode
               /\ aerr.stderr = proc.stderr
               /\ aerr.snippet = Take(_assemble(kept), SnippetLines)

(* C10: when apply_patch fails, the working tree and the index are as they
   were before the call: nothing of the document is left applied. *)
C10_FailedApplyLeavesTreeUntouched ==
  apc \in {"Rejected", "AppliedFailed"} => tree = {}

C10_Witness ==
  /\ apc = "AppliedFailed"
  /\ Len(_parse_blocks(clean_patch)) >= 2
  /\ proc.returncode # 0
  /\ tree = {}

(* C11: once apply_patch has returned or raised, the scratch file is gone,
   on every exit path after its creation (git exits 0, git exits non-zero,
   git cannot be started, writing the document fails). *)
C11_ScratchFileRemovedOnEveryExit ==
  Ended => ~tmp_exists

(* a line that is a diff start marker: "diff --git a/<path> b/<path>" from its
   first character on *)
MarkerLine(l) == l.kind = "diff" /\ l.lead = FALSE
Markers(text) == { i \in DOMAIN text : MarkerLine(text[i]) }
(* the position of the k-th marker of a text *)
NthMarker(text, k) ==
  CHOOSE i \in Markers(text) : Cardinality({ j \in Markers(text) : j < i }) = k - 1
(* the last line before the marker after the k-th one, or the last line *)
BlockEnd(text, k) ==
  IF k < Cardinality(Markers(text)) THEN NthMarker(text, k + 1) - 1 ELSE Len(text)
(* the positions of the "+++ b/<path>" headers of a block *)
TargetHeaders(block) ==
  { j \in DOMAIN block : block[j].kind = "plus3" /\ block[j].lead = FALSE }

(* C13: _parse_blocks returns one block per marker line, in order; a block
   starts with its marker, has no other marker, and runs to the line before
   the next marker, so lines before the first marker are in no block; the
   target is the path of the block's first "+++ b/" header, else the b side
   of its marker. *)
C13_OneBlockPerMarker ==
  apc \notin {"idle", "start"} =>
    /\ Len(blocks) = Cardinality(Markers(patch_text))
    /\ \A k \in DOMAIN blocks :
         LET b == blocks[k].block
             h == TargetHeaders(b)
         IN /\ b = SubSeq(patch_text, NthMarker(patch_text, k), BlockEnd(patch_text, k))
            /\ MarkerLine(b[1])
            /\ \A j \in 2..Len(b) : ~MarkerLine(b[j])
            /\ blocks[k].tgt = IF h = {} THEN b[1].b
                               ELSE b[CHOOSE j \in h : \A i \in h : j <= i].b

(* a parse of a text that has a line before its first marker, a line that
   holds the marker behind blanks, and a block whose "+++ b/" header names
   another path than its marker *)
C13_Witness ==
  /\ apc = "Parsed" /\ blocks # <<>>
  /\ ~MarkerLine(patch_text[1])
  /\ \E i \in DOMAIN patch_text : patch_text[i].kind = "diff" /\ patch_text[i].lead
  /\ \E k \in DOMAIN blocks : blocks[k].tgt # blocks[k].block[1].b

MatchesDir(path) == \E i \in DOMAIN allowed_dirs : StartsWith(path, allowed_dirs[i])
MatchesSuffix(path) ==
  \E i \in DOMAIN allowed_suffixes : EndsWith(path, allowed_suffixes[i])
(* the n-th smallest member of a set of positions *)
NthOf(S, n) == CHOOSE i \in S : Cardinality({ j \in S : j < i }) = n - 1
(* kept holds the blocks at the positions R, in order (a block is known by
   its marker line, which cleaning never removes) *)
KeptAre(R) ==
  /\ Len(kept) = Cardinality(R)
  /\ \A n \in DOMAIN kept :
       kept[n] # <<>> /\ kept[n][1] = blocks[NthOf(R, n)].block[1]

(* C14 as stated: the blocks retained are exactly those whose target matches
   a configured directory prefix or a configured suffix; all of them when
   neither list is configured. *)
C14_RetainedMatchEitherList ==
  apc \notin {"idle", "start", "Parsed"} =>
    KeptAre({ k \in DOMAIN blocks :
               \/ allowed_dirs = <<>> /\ allowed_suffixes = <<>>
               \/ MatchesDir(blocks[k].tgt)
               \/ MatchesSuffix(blocks[k].tgt) })

(* C14, amended: the blocks retained are exactly those whose target matches
   a directory prefix when any is configured and matches a suffix when any
   is configured; all of them when neither list is configured. *)
C14_RetainedMatchEachConfiguredList ==
  apc \notin {"idle", "start", "Parsed"} =>
    KeptAre({ k \in DOMAIN blocks :
               /\ allowed_dirs # <<>> => MatchesDir(blocks[k].tgt)
               /\ allowed_suffixes # <<>> => MatchesSuffix(blocks[k].tgt) })

(* both lists configured; one block retained, and one dropped although its
   target lies under an allowed directory *)
C14_Witness ==
  /\ apc = "Filtered" /\ allowed_dirs # <<>> /\ allowed_suffixes # <<>>
  /\ kept # <<>>
  /\ \E k \in DOMAIN blocks :
       MatchesDir(blocks[k].tgt) /\ ~MatchesSuffix(blocks[k].tgt)

(* a line whose first characters are "index " *)
IndexPrefixed(l) == l.kind \in {"index", "badindex"} /\ l.lead = FALSE
RECURSIVE WithoutIndexLines(_)
WithoutIndexLines(ls) ==
  IF ls = <<>> THEN <<>>
  ELSE IF IndexPrefixed(ls[Len(ls)]) THEN WithoutIndexLines(SubSeq(ls, 1, Len(ls) - 1))
  ELSE Append(WithoutIndexLines(SubSeq(ls, 1, Len(ls) - 1)), ls[Len(ls)])
(* the lines of all the blocks, one after the other *)
RECURSIVE Flatten(_)
Flatten(bs) == IF bs = <<>> THEN <<>> ELSE Head(bs) \o Flatten(Tail(bs))
(* the lines without regard to their terminators *)
Terminated(ls) == [i \in DOMAIN ls |-> [ls[i] EXCEPT !.nl = TRUE]]
Accepted == { k \in DOMAIN blocks : _accept_path(blocks[k].tgt) }

(* C15: a retained block, once cleaned, has no line starting with "index "
   and has every other line of the parsed block, unchanged and in order; in
   the assembled document every line, so the last line of every block, ends
   with a terminator, and the document has the lines of the cleaned blocks and
   no other. *)
C15_CleanedBlocksAndTerminators ==
  /\ apc \notin {"idle", "start", "Parsed"} =>
       \A n \in DOMAIN kept :
          /\ \A j \in DOMAIN kept[n] : ~IndexPrefixed(kept[n][j])
          /\ n <= Cardinality(Accepted)
          /\ kept[n] = WithoutIndexLines(blocks[NthOf(Accepted, n)].block)
  /\ apc \in {"Assembled", "Scratch", "AppliedOk", "AppliedFailed", "Errored"} =>
       /\ \A i \in DOMAIN clean_patch : clean_patch[i].nl
       /\ clean_patch = Terminated(Flatten(kept))

(* a document assembled from a text whose last line had no terminator, with
   a malformed index line removed from a retained block *)
C15_Witness ==
  /\ apc = "Assembled"
  /\ ~patch_text[Len(patch_text)].nl
  /\ ~IndexPrefixed(patch_text[Len(patch_text)])
  /\ \E k \in Accepted : \E j \in DOMAIN blocks[k].block :
        blocks[k].block[j].kind = "badindex"

(* a text with no diff block at all *)
NoDiffText == <<ProseLine>>

(* what apply_patch raises before it writes anything, for a text under the
   configured allowlists *)
Rejection(text) ==
  IF FilterAndClean(_parse_blocks(text)) = <<>> THEN RejectionError ELSE NoApplyError

(* C12: the outcome of apply_patch for a text whose diff blocks were all
   removed by the allowlist filter differs from the outcome it has for a text
   with no diff block at all. *)
C12_FilteredOutDiffersFromNoDiff ==
  (apc = "Rejected" /\ blocks # <<>>) => aerr # Rejection(NoDiffText)

(* ---- inputs of the manifest writer ---- *)
ManifestEntries ==
  { Entry(p, "<?php\n") :
      p \in {M_module, M_web, M_upper, M_root, M_climb, M_slash, M_bslash, M_inner} }
  \cup { Entry(M_web, "<?php"), EntryNoPath("<?php\n"), NotADict }
  \cup { Entry(M_docroot, "<?php\n"), Entry(M_readme, "<?php") }

InitManifest ==
  /\ IdleText
  /\ IdleWorkflow
  /\ ALLOWED_PREFIXES = _ALLOWED_DEFAULT
  /\ BLOCKED_PREFIXES = _BLOCKED_DEFAULT
  /\ MAX_CHANGED_FILES = DefaultMaxChangedFiles
  /\ MAX_TOTAL_LINES = DefaultMaxTotalLines
  /\ IdleGuards
  /\ IdleApplier
  /\ IdleMain
  /\ docroot \in {"web", "docroot"}
  /\ mf_allowed \in { <<>>, << <<docroot, "/", "modules", "/", "custom", "/">> >> }
  /\ manifest \in { [files |-> fs] : fs \in SeqsUpTo(ManifestEntries, MaxFiles) }
  /\ wi = 0 /\ written = <<>>
  /\ fs_dirs = CheckoutDirs(docroot) /\ fs_files = {}
  /\ wpc = "start" /\ werr = NoWriteError

NextManifest ==
  \/ wf_no_files \/ wf_begin \/ wf_entry_not_dict \/ wf_entry_skip
  \/ wf_entry_reject \/ wf_entry_write \/ wf_return

SpecManifest == InitManifest /\ [][NextManifest]_vars

(* --------------------------------------- claims on the manifest writer *)
(* a location a manifest entry may be written to, as C2 words it: strictly
   inside the repository root and, when allowed_dirs is non-empty, inside
   one of the allowed directories *)
TargetWithinGuardrails(loc) ==
  /\ StrictlyInside(loc, REPO)
  /\ mf_allowed # <<>> =>
       \E i \in DOMAIN mf_allowed :
          StrictlyInside(loc, AbsResolveFrom(Segments(mf_allowed[i]), REPO))

(* C2: every target the call writes is strictly inside the repository root
   and inside an allowed directory; an entry with any other target makes the
   call raise "Path not allowed by guardrails" naming the path. *)
C2_WrittenTargetsWithinGuardrails ==
  [][ (wpc = "loop" /\ wi <= Len(manifest.files)) =>
        LET e == manifest.files[wi]
        IN /\ \A k \in DOMAIN written' : TargetWithinGuardrails(written'[k])
           /\ (e.shape = "dict" /\ BothStrings(e)
               /\ ~TargetWithinGuardrails(ResolveTarget(_normalize_repo_path(e.path, docroot))))
              => /\ wpc' = "raised"
                 /\ werr'.type = "ValueError"
                 /\ werr'.msg = "Path not allowed by guardrails"
                 /\ werr'.path = _normalize_repo_path(e.path, docroot) ]_vars

(* C3: when an entry fails path validation the call raises and no file of
   the manifest has been written or created. *)
C3_RejectedManifestWritesNothing ==
  (wpc = "raised" /\ werr.msg = "Path not allowed by guardrails") =>
     /\ fs_files = {}
     /\ fs_dirs = CheckoutDirs(docroot)
     /\ written = <<>>

(* ============================================== cli/ai_dev_task.py: main *)
FenceLine == Ln("fence", NoPath, NoPath)   \* ```diff

(* _CODE_FENCE_RE.match(line) *)
_CODE_FENCE_RE(l) == l.kind = "fence"

(* re.search(r"^diff --git a/.+ b/.+", ..., flags=re.M) matches at this line *)
DiffLineAtStart(l) == l.kind = "diff" /\ ~l.lead

(* the lines of "\n".join(lines): the last one carries no terminator *)
JoinLines(ls) ==
  [i \in DOMAIN ls |-> [ls[i] EXCEPT !.nl = (i < Len(ls))]]

(* the index of the first code-fence line of ls, 0 when there is none *)
FirstFence(ls) ==
  IF \E i \in DOMAIN ls : _CODE_FENCE_RE(ls[i])
  THEN CHOOSE i \in DOMAIN ls :
         _CODE_FENCE_RE(ls[i]) /\ \A j \in 1..(i - 1) : ~_CODE_FENCE_RE(ls[j])
  ELSE 0

(* the index of the line where re.search finds the first diff header, 0 when
   there is none *)
FirstDiff(ls) ==
  IF \E i \in DOMAIN ls : DiffLineAtStart(ls[i])
  THEN CHOOSE i \in DOMAIN ls :
         DiffLineAtStart(ls[i]) /\ \A j \in 1..(i - 1) : ~DiffLineAtStart(ls[j])
  ELSE 0

_extract_first_diff_block(text) ==
  IF text = <<>> THEN <<>>
  ELSE LET end_idx == FirstFence(Tail(text))
           lines   == IF _CODE_FENCE_RE(text[1]) /\ end_idx # 0
                      THEN SubSeq(text, 2, end_idx)
                      ELSE text
           body    == JoinLines(lines)
           m_body  == FirstDiff(body)
           m_text  == FirstDiff(text)
       IN IF m_body # 0 THEN SubSeq(body, m_body, Len(body))
          ELSE IF m_text # 0 THEN SubSeq(text, m_text, Len(text))
          ELSE <<>>

_looks_like_unified_diff(text) ==
  /\ text # <<>>
  /\ \E i \in DOMAIN text : text[i].kind = "diff"
  /\ \E i \in DOMAIN text : text[i].kind \in {"plus3", "minus3"} /\ ~text[i].lead
  /\ \E i \in DOMAIN text : text[i].kind = "hunk" /\ ~text[i].lead

IndexPhp(root) == [loc |-> REPO \o <<root, "index.php">>, content |-> "index"]

_detect_docroot ==
  IF IndexPhp("web") \in fs_files THEN "web"
  ELSE IF IndexPhp("docroot") \in fs_files THEN "docroot"
  ELSE "web"

(* what git status --porcelain reports: the paths git apply changed and the
   files written into the checkout *)
WorkingChanges ==
  [applied |-> tree,
   written |-> { f.loc : f \in { g \in fs_files : g.content # "index" } }]
_git_has_changes == WorkingChanges.applied # {} \/ WorkingChanges.written # {}

(* main up to the is_disabled() test: the .git check, docroot, allowed_dirs *)
m_start ==
  /\ mpc = "start"
  /\ IF REPO \o <<".git">> \notin fs_dirs
     THEN /\ rc' = 2 /\ mpc' = "done"
          /\ UNCHANGED <<docroot, mf_allowed>>
     ELSE /\ docroot' = _detect_docroot
          /\ mf_allowed' = IF allow_outside_custom THEN <<>>
                           ELSE << <<docroot', "/", "modules", "/", "custom", "/">> >>
          /\ mpc' = "ready"
          /\ rc' = rc
  /\ UNCHANGED <<manifest, wi, written, fs_dirs, fs_files, wpc, werr>>
  /\ UNCHANGED <<manifest_attempts, commits, pushes>>
  /\ UNCHANGED <<guardGlobals, guardVars, applierCfg, applyVars, mainArgs, workflowVars, textVars>>

(* if is_disabled(): return 0 *)
m_disabled ==
  /\ mpc = "ready" /\ llm_disabled
  /\ rc' = 0 /\ mpc' = "done"
  /\ UNCHANGED <<manifest_attempts, commits, pushes>>
  /\ UNCHANGED <<guardGlobals, guardVars, applierCfg, applyVars, manifestVars, mainArgs, workflowVars, textVars>>

(* if force_manifest: *)
m_force_manifest ==
  /\ mpc = "ready" /\ ~llm_disabled /\ force_manifest
  /\ mpc' = "manifest"
  /\ UNCHANGED <<rc, manifest_attempts, commits, pushes>>
  /\ UNCHANGED <<guardGlobals, guardVars, applierCfg, applyVars, manifestVars, mainArgs, workflowVars, textVars>>

MainLines ==
  { DiffLine(P_custom, P_custom), DiffLine(P_lock, P_lock), Plus3(P_custom),
    Plus3(P_lock), HunkLine, FenceLine }

(* raw = complete(...); patch_text = _extract_first_diff_block(raw);
   if _looks_like_unified_diff(patch_text): PatchApplier(...).apply_patch(...) *)
m_generate_patch ==
  /\ mpc = "ready" /\ ~llm_disabled /\ ~force_manifest
  /\ \E answer \in SeqsUpTo(MainLines, MaxLines) :
       /\ patch_text' = _extract_first_diff_block(answer)
       /\ IF _looks_like_unified_diff(patch_text')
          THEN /\ allowed_dirs' = NormalizeDirs(mf_allowed)
               /\ allowed_suffixes' = <<>>
               /\ apc' = "start"
               /\ mpc' = "applying"
          ELSE /\ mpc' = "manifest"
               /\ UNCHANGED <<allowed_dirs, allowed_suffixes, apc>>
  /\ UNCHANGED <<blocks, kept, clean_patch, tmp_exists, proc, tool_calls, tree, aerr>>
  /\ UNCHANGED <<rc, manifest_attempts, commits, pushes>>
  /\ UNCHANGED <<guardGlobals, guardVars, manifestVars, mainArgs, workflowVars, textVars>>

(* apply_patch returned *)
m_patch_applied ==
  /\ mpc = "applying" /\ apc = "AppliedOk"
  /\ mpc' = "commit_patch"
  /\ UNCHANGED <<rc, manifest_attempts, commits, pushes>>
  /\ UNCHANGED <<guardGlobals, guardVars, applierCfg, applyVars, manifestVars, mainArgs, workflowVars, textVars>>

(* a main in which a PatchApplyError ends the run *)
m_patch_apply_error_Fatal ==
  /\ mpc = "applying" /\ apc \in {"Rejected", "AppliedFailed"}
  /\ mpc' = "done" /\ rc' = 1
  /\ UNCHANGED <<manifest_attempts, commits, pushes>>
  /\ UNCHANGED <<guardGlobals, guardVars, applierCfg, applyVars, manifestVars, mainArgs, workflowVars, textVars>>

(* except PatchApplyError: print a warning and go on to manifest mode *)
m_patch_apply_error ==
  /\ mpc = "applying" /\ apc \in {"Rejected", "AppliedFailed"}
  /\ mpc' = "manifest"
  /\ UNCHANGED <<rc, manifest_attempts, commits, pushes>>
  /\ UNCHANGED <<guardGlobals, guardVars, applierCfg, applyVars, manifestVars, mainArgs, workflowVars, textVars>>

(* an exception that is not a PatchApplyError leaves main *)
m_patch_crash ==
  /\ mpc = "applying" /\ apc = "Errored"
  /\ mpc' = "crashed" /\ rc' = 1
  /\ UNCHANGED <<manifest_attempts, commits, pushes>>
  /\ UNCHANGED <<guardGlobals, guardVars, applierCfg, applyVars, manifestVars, mainArgs, workflowVars, textVars>>

(* _git_commit_all after a successful apply; its RuntimeError leaves main *)
m_commit_patch ==
  /\ mpc = "commit_patch"
  /\ IF _git_has_changes
     THEN /\ commits' = Append(commits, WorkingChanges)
          /\ mpc' = "push_patch"
          /\ rc' = rc
     ELSE /\ mpc' = "crashed" /\ rc' = 1
          /\ commits' = commits
  /\ UNCHANGED <<manifest_attempts, pushes>>
  /\ UNCHANGED <<guardGlobals, guardVars, applierCfg, applyVars, manifestVars, mainArgs, workflowVars, textVars>>

(* _git_push_current; return 0 *)
m_push_patch ==
  /\ mpc = "push_patch"
  /\ pushes' = pushes + 1
  /\ rc' = 0 /\ mpc' = "done"
  /\ UNCHANGED <<manifest_attempts, commits>>
  /\ UNCHANGED <<guardGlobals, guardVars, applierCfg, applyVars, manifestVars, mainArgs, workflowVars, textVars>>

(* git push fails: the RuntimeError of _run leaves main *)
m_push_patch_fails ==
  /\ mpc = "push_patch"
  /\ mpc' = "crashed" /\ rc' = 1
  /\ UNCHANGED <<manifest_attempts, commits, pushes>>
  /\ UNCHANGED <<guardGlobals, guardVars, applierCfg, applyVars, manifestVars, mainArgs, workflowVars, textVars>>

MainManifestEntries ==
  { Entry(M_web, "<?php\n"), Entry(M_climb, "<?php\n"), EntryNoPath("<?php\n"), NotADict }

(* _try_manifest_generation: the response holds no JSON object, or none that
   parses after the repairs: RuntimeError, caught by main: return 8 *)
m_manifest_invalid ==
  /\ mpc = "manifest"
  /\ manifest_attempts' = manifest_attempts + 1
  /\ rc' = 8 /\ mpc' = "done"
  /\ UNCHANGED <<commits, pushes>>
  /\ UNCHANGED <<guardGlobals, guardVars, applierCfg, applyVars, manifestVars, mainArgs, workflowVars, textVars>>

(* _try_manifest_generation: the response parses to a manifest, which goes
   to _write_files_from_manifest *)
m_manifest_parsed ==
  /\ mpc = "manifest"
  /\ manifest_attempts' = manifest_attempts + 1
  /\ \E fs \in SeqsUpTo(MainManifestEntries, MaxFiles) : manifest' = [files |-> fs]
  /\ wpc' = "start"
  /\ mpc' = "writing"
  /\ UNCHANGED <<docroot, mf_allowed, wi, written, fs_dirs, fs_files, werr>>
  /\ UNCHANGED <<rc, commits, pushes>>
  /\ UNCHANGED <<guardGlobals, guardVars, applierCfg, applyVars, mainArgs, workflowVars, textVars>>

(* main without the "if not written" test: an empty result goes on to the
   commit *)
m_manifest_written_AlwaysCommit ==
  /\ mpc = "writing" /\ wpc = "returned"
  /\ rc' = rc /\ mpc' = "commit_manifest"
  /\ UNCHANGED <<manifest_attempts, commits, pushes>>
  /\ UNCHANGED <<guardGlobals, guardVars, applierCfg, applyVars, manifestVars, mainArgs, workflowVars, textVars>>

(* written returned: if not written: return 7 *)
m_manifest_written ==
  /\ mpc = "writing" /\ wpc = "returned"
  /\ IF written = <<>>
     THEN rc' = 7 /\ mpc' = "done"
     ELSE rc' = rc /\ mpc' = "commit_manifest"
  /\ UNCHANGED <<manifest_attempts, commits, pushes>>
  /\ UNCHANGED <<guardGlobals, guardVars, applierCfg, applyVars, manifestVars, mainArgs, workflowVars, textVars>>

(* except Exception: return 8 *)
m_manifest_failed ==
  /\ mpc = "writing" /\ wpc = "raised"
  /\ rc' = 8 /\ mpc' = "done"
  /\ UNCHANGED <<manifest_attempts, commits, pushes>>
  /\ UNCHANGED <<guardGlobals, guardVars, applierCfg, applyVars, manifestVars, mainArgs, workflowVars, textVars>>

(* git add rels; _git_commit_all; its RuntimeError is caught: return 8 *)
m_commit_manifest ==
  /\ mpc = "commit_manifest"
  /\ IF _git_has_changes
     THEN /\ commits' = Append(commits, WorkingChanges)
          /\ mpc' = "push_manifest"
          /\ rc' = rc
     ELSE /\ rc' = 8 /\ mpc' = "done"
          /\ commits' = commits
  /\ UNCHANGED <<manifest_attempts, pushes>>
  /\ UNCHANGED <<guardGlobals, guardVars, applierCfg, applyVars, manifestVars, mainArgs, workflowVars, textVars>>

(* _git_push_current; return 0 *)
m_push_manifest ==
  /\ mpc = "push_manifest"
  /\ pushes' = pushes + 1
  /\ rc' = 0 /\ mpc' = "done"
  /\ UNCHANGED <<manifest_attempts, commits>>
  /\ UNCHANGED <<guardGlobals, guardVars, applierCfg, applyVars, manifestVars, mainArgs, workflowVars, textVars>>

(* git push fails: the RuntimeError is caught: return 8 *)
m_push_manifest_fails ==
  /\ mpc = "push_manifest"
  /\ rc' = 8 /\ mpc' = "done"
  /\ UNCHANGED <<manifest_attempts, commits, pushes>>
  /\ UNCHANGED <<guardGlobals, guardVars, applierCfg, applyVars, manifestVars, mainArgs, workflowVars, textVars>>

(* the checkouts main is started in: a git checkout with document root web
   (no index.php yet), one with document root docroot, and a directory that
   is not a git checkout *)
Checkouts ==
  { [dirs |-> CheckoutDirs("web"), files |-> {}],
    [dirs |-> CheckoutDirs("docroot"), files |-> {IndexPhp("docroot")}],
    [dirs |-> Ancestors(REPO) \cup {REPO}, files |-> {}] }

InitMain ==
  /\ IdleText
  /\ IdleWorkflow
  /\ ALLOWED_PREFIXES = _ALLOWED_DEFAULT
  /\ BLOCKED_PREFIXES = _BLOCKED_DEFAULT
  /\ MAX_CHANGED_FILES = DefaultMaxChangedFiles
  /\ MAX_TOTAL_LINES = DefaultMaxTotalLines
  /\ IdleGuards
  /\ IdleApplier
  /\ allow_outside_custom \in BOOLEAN
  /\ force_manifest \in BOOLEAN
  /\ llm_disabled \in BOOLEAN
  /\ \E co \in Checkouts : fs_dirs = co.dirs /\ fs_files = co.files
  /\ docroot = "" /\ mf_allowed = <<>> /\ manifest = [files |-> <<>>]
  /\ wi = 0 /\ written = <<>> /\ wpc = "idle" /\ werr = NoWriteError
  /\ mpc = "start" /\ rc = -1 /\ manifest_attempts = 0 /\ commits = <<>> /\ pushes = 0

NextMain ==
  \/ m_start \/ m_disabled \/ m_force_manifest \/ m_generate_patch
  \/ m_patch_applied \/ m_patch_apply_error \/ m_patch_crash
  \/ m_commit_patch \/ m_push_patch \/ m_push_patch_fails
  \/ m_manifest_invalid \/ m_manifest_parsed \/ m_manifest_written
  \/ m_manifest_failed \/ m_commit_manifest \/ m_push_manifest
  \/ m_push_manifest_fails
  \/ ap_parse \/ ap_filter \/ ap_reject \/ ap_assemble
  \/ ap_write_scratch \/ ap_write_scratch_fails
  \/ ap_run_cannot_launch \/ ap_run
  \/ wf_no_files \/ wf_begin \/ wf_entry_not_dict \/ wf_entry_skip
  \/ wf_entry_reject \/ wf_entry_write \/ wf_return

SpecMain == InitMain /\ [][NextMain]_vars

(* ------------------------------------------------------ claims on main *)
(* C4: in main, apply_patch is invoked on a patch only after
   enforce_patch_guardrails has accepted that same text, and a patch whose
   assessed risk level is high is never applied (main has no override). *)
C4_ApplyOnlyAfterGuardrailsAccept ==
  /\ apc # "idle" => (gpc = "returned" /\ patch = patch_text)
  /\ apc = "AppliedOk" => assess_patch_risk(patch_text).risk_level # "high"

(* the caller asks for the advisory report only: risk = assess_patch_risk(patch) *)
assess_call ==
  /\ gpc = "call"
  /\ gpc' = "assessed"
  /\ risk' = assess_patch_risk(patch)
  /\ UNCHANGED <<gerr, patch, allow_risk, guardGlobals, textVars>>
  /\ UNCHANGED <<applierCfg, applyVars, manifestVars, mainArgs, workflowVars, mainVars>>

(* GuardrailRejects that does not look at the override *)
GuardrailRejects_NoOverride(r, allow) == r.risk_level = "high"

(* if risk.risk_level == "high" and not allow_risk: raise *)
GuardrailRejects(r, allow) == r.risk_level = "high" /\ ~allow

(* enforce_patch_guardrails(patch, allow_risk=allow_risk) *)
enforce_patch_guardrails ==
  /\ gpc = "call"
  /\ LET r == assess_patch_risk(patch)
     IN IF GuardrailRejects(r, allow_risk)
        THEN /\ gpc' = "raised"
             /\ gerr' = [type |-> "ValueError", reason |-> r.reason]
             /\ risk' = risk
        ELSE /\ gpc' = "returned"
             /\ risk' = r
             /\ gerr' = gerr
  /\ UNCHANGED <<patch, allow_risk, guardGlobals, textVars>>
  /\ UNCHANGED <<applierCfg, applyVars, manifestVars, mainArgs, workflowVars, mainVars>>

(* ------------------------------------------------- inputs of the guards *)
RiskLines ==
  { DiffLine(P_notes, P_notes), DiffLine(P_module, P_module),
    DiffLine(P_vendor, P_vendor), DiffLine(P_lock, P_lock),
    DiffLine(P_sublock, P_sublock), DiffLine(P_readme, P_readme),
    DiffLine(P_git, P_git),
    Plus3(P_notes), Minus3(P_notes), HunkLine, AddLine, DelLine, ProseLine }

InitRisk ==
  /\ IdleText
  /\ IdleWorkflow
  /\ EnvGuardGlobals
  /\ IdleMain
  /\ IdleApplier
  /\ IdleManifest
  /\ patch \in SeqsUpTo(RiskLines, MaxLines)
  /\ allow_risk \in BOOLEAN
  /\ gpc = "call"
  /\ risk = NoRisk
  /\ gerr = NoError

NextRisk == assess_call \/ enforce_patch_guardrails

SpecRisk == InitRisk /\ [][NextRisk]_vars

(* texts of many headers: enough changed paths for a list of more than three *)
HeaderLines ==
  { DiffLine(P_vendor, P_vendor), DiffLine(P_lock, P_lock),
    DiffLine(P_readme, P_readme), DiffLine(P_notes, P_notes), AddLine }

InitRiskWide ==
  /\ IdleText
  /\ IdleWorkflow
  /\ InitGuardGlobals
  /\ IdleMain
  /\ IdleApplier
  /\ IdleManifest
  /\ patch \in SeqsUpTo(HeaderLines, MaxHeaderLines)
  /\ allow_risk \in BOOLEAN
  /\ gpc = "call"
  /\ risk = NoRisk
  /\ gerr = NoError

SpecRiskWide == InitRiskWide /\ [][NextRisk]_vars

(* ------------------------------------------------ claims on the guards *)
TotalLines(r) == r.total_added + r.total_removed

(* C5: enforce_patch_guardrails raises ValueError exactly when the assessed
   level is "high" and allow_risk is false; otherwise it returns the report
   of assess_patch_risk for the text; the text, the override and the module
   globals are left as they were. *)
C5_EnforceRaisesIffHighNoOverride ==
  [][ (gpc = "call" /\ gpc' \in {"raised", "returned"}) =>
        /\ (gpc' = "raised") <=>
             (assess_patch_risk(patch).risk_level = "high" /\ ~allow_risk)
        /\ (gpc' = "raised") => (gerr'.type = "ValueError" /\ risk' = risk)
        /\ (gpc' = "returned") => (risk' = assess_patch_risk(patch) /\ gerr' = gerr)
        /\ UNCHANGED <<patch, allow_risk, guardGlobals>> ]_vars

C5_Witness == gpc = "raised" /\ gerr.type = "ValueError" /\ ~allow_risk

(* the level as the data-model invariant of PatchRiskReport words it *)
ClaimedLevel(r) ==
  IF \/ r.blocked # <<>>
     \/ r.high_risk # <<>>
     \/ Len(r.files) > MAX_CHANGED_FILES
     \/ TotalLines(r) > MAX_TOTAL_LINES
  THEN "high"
  ELSE IF r.out_of_scope # <<>> THEN "medium" ELSE "low"

(* C6 as stated: the level is high if blocked or high_risk is non-empty or a
   size threshold is exceeded, medium if none of those and out_of_scope is
   non-empty, low otherwise. *)
C6_LevelFollowsInvariant ==
  gpc = "assessed" => risk.risk_level = ClaimedLevel(risk)

(* C6 amended: the same, for a text with at least one changed file; a text
   with no changed file is low. *)
C6_LevelFollowsInvariantWhenFiles ==
  gpc = "assessed" =>
    risk.risk_level = (IF risk.files = <<>> THEN "low" ELSE ClaimedLevel(risk))

C6_Witness ==
  /\ gpc = "assessed"
  /\ risk.files # <<>> /\ risk.blocked = <<>> /\ risk.high_risk = <<>>
  /\ Len(risk.files) > MAX_CHANGED_FILES
  /\ TotalLines(risk) <= MAX_TOTAL_LINES
  /\ risk.risk_level = "high"

(* the file name of a path: its last segment *)
FileName(path) == path[Len(path)]
SensitiveFileNames ==
  {".gitlab-ci.yml", "composer.json", "composer.lock", "package.json",
   "pnpm-lock.yaml", "yarn.lock"}

(* C7: a patch that touches a file named composer.lock (or another sensitive
   file name), at the root or in a subdirectory, is assessed high. *)
C7_SensitiveFileNameIsHigh ==
  (gpc = "assessed" /\ \E i \in DOMAIN risk.files :
                         /\ risk.files[i] # <<>>
                         /\ FileName(risk.files[i]) \in SensitiveFileNames)
    => risk.risk_level = "high"

(* C8: a text without any diff header line is assessed low, with the
   diagnostic "no file headers found" in the reason, however many added and
   removed lines it has. *)
C8_NoHeaderIsLowWithDiagnostic ==
  (gpc = "assessed" /\ \A i \in DOMAIN patch : ~_DIFF_HEADER_RE(patch[i]))
    => /\ risk.risk_level = "low"
       /\ \E j \in DOMAIN risk.reason : risk.reason[j].tag = "no file headers found"

C8_Witness ==
  /\ gpc = "assessed"
  /\ \A i \in DOMAIN patch : ~_DIFF_HEADER_RE(patch[i])
  /\ CountAdded(patch) + CountRemoved(patch) > MAX_TOTAL_LINES
  /\ risk.risk_level = "low"

(* the path begins with one of the prefixes, as written *)
BeginsWithOneOf(path, prefixes) ==
  \E i \in DOMAIN prefixes : StartsWith(path, prefixes[i])

(* C16: blocked is exactly the changed paths that begin with a denylist
   prefix (by default vendor/, core/ and .git/), out_of_scope exactly those
   that begin with no allowlist prefix, high_risk exactly those that are a
   sensitive file; each is taken from files in order. *)
C16_ListsAreExactlyTheMatchingPaths ==
  gpc = "assessed" =>
    /\ risk.blocked =
         SelectSeq(risk.files, LAMBDA f : BeginsWithOneOf(f, BLOCKED_PREFIXES))
    /\ risk.out_of_scope =
         SelectSeq(risk.files, LAMBDA f : ~BeginsWithOneOf(f, ALLOWED_PREFIXES))
    /\ risk.high_risk = SelectSeq(risk.files, LAMBDA f : f \in HIGH_RISK_FILES)

(* C17: with an empty denylist and no allowed prefix configured, a patch that
   touches no sensitive file name and whose file count and line count are at
   or below their thresholds is assessed low. *)
C17_UnrestrictedSmallPatchIsLow ==
  ( /\ gpc = "assessed"
    /\ BLOCKED_PREFIXES = <<>> /\ ALLOWED_PREFIXES = <<>>
    /\ \A i \in DOMAIN risk.files : FileName(risk.files[i]) \notin SensitiveFileNames
    /\ Len(risk.files) <= MAX_CHANGED_FILES
    /\ TotalLines(risk) <= MAX_TOTAL_LINES )
    => risk.risk_level = "low"

(* the fragments of a reason that carry a tag *)
FragsOf(r, tag) == { j \in DOMAIN r.reason : r.reason[j].tag = tag }
(* the fragment for a list of paths is there exactly when shown says so, once,
   with the first three paths at most and an ellipsis exactly when the list
   has more than three *)
PathFragment(r, tag, list, shown) ==
  /\ Cardinality(FragsOf(r, tag)) = (IF shown THEN 1 ELSE 0)
  /\ \A j \in FragsOf(r, tag) :
       /\ Len(r.reason[j].paths) <= 3
       /\ r.reason[j].paths = SubSeq(list, 1, Len(r.reason[j].paths))
       /\ Len(list) <= 3 => r.reason[j].paths = list
       /\ r.reason[j].more <=> Len(list) > 3
SizeExceeded(r) ==
  Len(r.files) > MAX_CHANGED_FILES \/ TotalLines(r) > MAX_TOTAL_LINES
SizeFragment(r) ==
  /\ Cardinality(FragsOf(r, "size limit exceeded")) = (IF SizeExceeded(r) THEN 1 ELSE 0)
  /\ \A j \in FragsOf(r, "size limit exceeded") :
       r.reason[j].files = Len(r.files) /\ r.reason[j].lines = TotalLines(r)

(* C18 as stated: the reason has one fragment for every condition that holds
   (blocked paths, high-risk files, size limit exceeded, out-of-scope paths);
   a path fragment shows three paths at most, with an ellipsis exactly when
   more than three matched; the size fragment is there exactly when a count
   is strictly above its threshold. *)
C18_ReasonNamesEveryCondition ==
  gpc = "assessed" =>
    /\ PathFragment(risk, "blocked paths", risk.blocked, risk.blocked # <<>>)
    /\ PathFragment(risk, "high-risk files", risk.high_risk, risk.high_risk # <<>>)
    /\ SizeFragment(risk)
    /\ PathFragment(risk, "out-of-scope paths", risk.out_of_scope,
                    risk.out_of_scope # <<>>)

(* C18, amended: the same, but the out-of-scope fragment is there exactly when
   out_of_scope is non-empty and none of the three conditions that make the
   level high holds. *)
C18_ReasonNamesEveryConditionButOutOfScopeWhenHigh ==
  gpc = "assessed" =>
    /\ PathFragment(risk, "blocked paths", risk.blocked, risk.blocked # <<>>)
    /\ PathFragment(risk, "high-risk files", risk.high_risk, risk.high_risk # <<>>)
    /\ SizeFragment(risk)
    /\ PathFragment(risk, "out-of-scope paths", risk.out_of_scope,
                    /\ risk.out_of_scope # <<>>
                    /\ risk.blocked = <<>> /\ risk.high_risk = <<>>
                    /\ ~SizeExceeded(risk))

(* four blocked paths, shown as three and an ellipsis, next to the size
   fragment; the paths are out of scope as well *)
C18_Witness ==
  /\ gpc = "assessed"
  /\ Len(risk.blocked) > 3 /\ Len(risk.out_of_scope) > 3
  /\ SizeExceeded(risk)
  /\ \E j \in DOMAIN risk.reason : risk.reason[j].more
  /\ Len(risk.reason) = 2

(* =============================== cli/ai_dev_task.py: _extract_outer_json *)
(* three backquotes *)
FENCE == "fence"
JSON_TAG == "json"
Chars == {FENCE, JSON_TAG, " ", "{", "}", "x"}

(* \s *)
IsSpace(c) == c = " "
(* not s.strip() *)
IsBlank(s) == \A i \in DOMAIN s : IsSpace(s[i])

(* \s* from position i: the position of the first character that is no space *)
RECURSIVE SkipSpaces(_, _)
SkipSpaces(s, i) ==
  IF i <= Len(s) /\ IsSpace(s[i]) THEN SkipSpaces(s, i + 1) ELSE i

(* {.*?}\s*FENCE from an opening brace before position q: the first closing
   brace at q or later that only spaces separate from a fence; 0 if none *)
RECURSIVE LazyClose(_, _)
LazyClose(s, q) ==
  IF q > Len(s) THEN 0
  ELSE IF s[q] = "}" /\ SkipSpaces(s, q + 1) <= Len(s) /\ s[SkipSpaces(s, q + 1)] = FENCE
       THEN q
       ELSE LazyClose(s, q + 1)

(* the pattern FENCE(?:json)?\s*({.*?})\s*FENCE tried at position i: the span of
   group 1, or <<>> *)
FencedAt(s, i) ==
  IF s[i] # FENCE THEN <<>>
  ELSE LET a == IF i + 1 <= Len(s) /\ s[i + 1] = JSON_TAG THEN i + 2 ELSE i + 1
           p == SkipSpaces(s, a)
       IN IF p <= Len(s) /\ s[p] = "{" /\ LazyClose(s, p + 1) # 0
          THEN <<p, LazyClose(s, p + 1)>>
          ELSE <<>>

(* re.search of the fenced pattern: the leftmost position where it matches *)
RECURSIVE FencedSearch(_, _)
FencedSearch(s, i) ==
  IF i > Len(s) THEN <<>>
  ELSE IF FencedAt(s, i) # <<>> THEN FencedAt(s, i)
  ELSE FencedSearch(s, i + 1)

(* s.find(c), s.rfind(c): 0 when c does not occur *)
RECURSIVE Find(_, _, _)
Find(s, c, i) == IF i > Len(s) THEN 0 ELSE IF s[i] = c THEN i ELSE Find(s, c, i + 1)
RECURSIVE RFind(_, _, _)
RFind(s, c, i) == IF i < 1 THEN 0 ELSE IF s[i] = c THEN i ELSE RFind(s, c, i - 1)

(* re.search(r"\{.*\}\s*$", s, DOTALL): from the first opening brace, the
   greedy .* runs to the last closing brace, after which only spaces may
   follow; group(0) runs to the end of the text *)
TrailingSearch(s) ==
  LET first == Find(s, "{", 1)
      last  == RFind(s, "}", Len(s))
  IN IF first # 0 /\ last > first /\ SkipSpaces(s, last + 1) > Len(s)
     THEN <<first, Len(s)>> ELSE <<>>

(* _extract_outer_json that tries the trailing pattern before the fenced one *)
_extract_outer_json_TrailingFirst(s) ==
  LET m1    == FencedSearch(s, 1)
      m2    == TrailingSearch(s)
      first == Find(s, "{", 1)
      last  == RFind(s, "}", Len(s))
  IN IF s = <<>> \/ IsBlank(s)
     THEN [value |-> <<>>, error |-> "ValueError", msg |-> "Empty LLM response."]
     ELSE IF m2 # <<>> THEN [NoExtract EXCEPT !.value = SubSeq(s, m2[1], m2[2])]
     ELSE IF m1 # <<>> THEN [NoExtract EXCEPT !.value = SubSeq(s, m1[1], m1[2])]
     ELSE IF first # 0 /\ last # 0 /\ last > first
     THEN [NoExtract EXCEPT !.value = SubSeq(s, first, last)]
     ELSE [value |-> <<>>, error |-> "ValueError",
           msg |-> "No JSON object found in LLM output."]

_extract_outer_json(s) ==
  LET m1    == FencedSearch(s, 1)
      m2    == TrailingSearch(s)
      first == Find(s, "{", 1)
      last  == RFind(s, "}", Len(s))
  IN IF s = <<>> \/ IsBlank(s)
     THEN [value |-> <<>>, error |-> "ValueError", msg |-> "Empty LLM response."]
     ELSE IF m1 # <<>> THEN [NoExtract EXCEPT !.value = SubSeq(s, m1[1], m1[2])]
     ELSE IF m2 # <<>> THEN [NoExtract EXCEPT !.value = SubSeq(s, m2[1], m2[2])]
     ELSE IF first # 0 /\ last # 0 /\ last > first
     THEN [NoExtract EXCEPT !.value = SubSeq(s, first, last)]
     ELSE [value |-> <<>>, error |-> "ValueError",
           msg |-> "No JSON object found in LLM output."]

(* raw = _extract_outer_json(out) *)
extract_call ==
  /\ xpc = "call"
  /\ xout' = _extract_outer_json(llm_text)
  /\ xpc' = IF xout'.error = "none" THEN "returned" ELSE "raised"
  /\ UNCHANGED <<llm_text, raw, repaired, tpc, loads, passes, content, twritten, terr>>
  /\ UNCHANGED <<guardGlobals, guardVars, applierCfg, applyVars, manifestVars, mainArgs, workflowVars,
                 mainVars>>

InitExtract ==
  /\ DefaultGuardGlobals
  /\ IdleGuards
  /\ IdleApplier
  /\ IdleManifest
  /\ IdleMain
  /\ llm_text \in SeqsUpTo(Chars, MaxChars)
  /\ xpc = "call"
  /\ xout = NoExtract
  /\ IdleRepair
  /\ IdleWorkflow

NextExtract == extract_call

SpecExtract == InitExtract /\ [][NextExtract]_vars

(* ============== cli/ai_dev_task.py: the repair passes and the manifest parse *)
QUOTE == "\""
BACKSLASH == "\\"
NEWLINE == "\n"
(* the characters of a manifest text: the quote, the backslash, a letter that
   is no JSON escape ("D"), a letter that is one ("n"), a literal newline *)
JsonChars == {QUOTE, BACKSLASH, "D", "n", NEWLINE}
(* valid_esc = set('"\\/bfnrtu'), as far as the characters of the model go *)
valid_esc == {QUOTE, BACKSLASH, "n"}

(* the loop of _json_escape_repair_in_strings from character i on, in the
   state in_str, esc *)
RECURSIVE EscapeRepairFrom(_, _, _, _)
EscapeRepairFrom(s, i, in_str, esc) ==
  IF i > Len(s) THEN <<>>
  ELSE LET ch == s[i]
       IN IF ~in_str
          THEN <<ch>> \o EscapeRepairFrom(s, i + 1, ch = QUOTE, FALSE)
          ELSE IF esc
          THEN (IF ch \notin valid_esc THEN <<BACKSLASH, ch>> ELSE <<ch>>)
               \o EscapeRepairFrom(s, i + 1, TRUE, FALSE)
          ELSE IF ch = BACKSLASH
          THEN <<ch>> \o EscapeRepairFrom(s, i + 1, TRUE, TRUE)
          ELSE <<ch>> \o EscapeRepairFrom(s, i + 1, ch # QUOTE, FALSE)

(* the pass that doubles the backslash of every escape, valid or not *)
_json_escape_repair_in_strings_DoubleAll(s) ==
  LET RECURSIVE From(_, _, _)
      From(i, in_str, esc) ==
        IF i > Len(s) THEN <<>>
        ELSE LET ch == s[i]
             IN IF ~in_str THEN <<ch>> \o From(i + 1, ch = QUOTE, FALSE)
                ELSE IF esc THEN <<BACKSLASH, ch>> \o From(i + 1, TRUE, FALSE)
                ELSE IF ch = BACKSLASH THEN <<ch>> \o From(i + 1, TRUE, TRUE)
                ELSE <<ch>> \o From(i + 1, ch # QUOTE, FALSE)
  IN From(1, FALSE, FALSE)

_json_escape_repair_in_strings(s) == EscapeRepairFrom(s, 1, FALSE, FALSE)

(* the two-character escape of a control character *)
CtrlEscape(ch) == IF ch = NEWLINE THEN <<BACKSLASH, "n">> ELSE <<ch>>

(* the loop of _escape_ctrl_in_strings from character i on *)
RECURSIVE EscapeCtrlFrom(_, _, _, _)
EscapeCtrlFrom(s, i, in_str, esc) ==
  IF i > Len(s) THEN <<>>
  ELSE LET ch == s[i]
       IN IF ~in_str
          THEN <<ch>> \o EscapeCtrlFrom(s, i + 1, ch = QUOTE, FALSE)
          ELSE IF esc
          THEN <<ch>> \o EscapeCtrlFrom(s, i + 1, TRUE, FALSE)
          ELSE IF ch = BACKSLASH
          THEN <<ch>> \o EscapeCtrlFrom(s, i + 1, TRUE, TRUE)
          ELSE IF ch = QUOTE
          THEN <<ch>> \o EscapeCtrlFrom(s, i + 1, FALSE, FALSE)
          ELSE CtrlEscape(ch) \o EscapeCtrlFrom(s, i + 1, TRUE, FALSE)

_escape_ctrl_in_strings(s) == EscapeCtrlFrom(s, 1, FALSE, FALSE)

(* json.loads on the manifest whose one content string is written as the
   text s: blanks, the string literal, blanks.  The decoder scans the literal
   from character i on; acc is the content decoded so far. *)
JsonError(msg) == [ok |-> FALSE, value |-> <<>>, msg |-> msg]
RECURSIVE ScanString(_, _, _)
ScanString(s, i, acc) ==
  IF i > Len(s) THEN JsonError("Unterminated string")
  ELSE IF s[i] = QUOTE
  THEN IF \A k \in (i + 1)..Len(s) : s[k] = NEWLINE
       THEN [ok |-> TRUE, value |-> acc, msg |-> ""]
       ELSE JsonError("Extra data")
  ELSE IF s[i] = NEWLINE THEN JsonError("Invalid control character")
  ELSE IF s[i] = BACKSLASH
  THEN IF i + 1 > Len(s) THEN JsonError("Unterminated string")
       ELSE IF s[i + 1] \notin valid_esc THEN JsonError("Invalid \\escape")
       ELSE ScanString(s, i + 2,
                       Append(acc, IF s[i + 1] = "n" THEN NEWLINE ELSE s[i + 1]))
  ELSE ScanString(s, i + 1, Append(acc, s[i]))

RECURSIVE SkipBlanks(_, _)
SkipBlanks(s, i) == IF i <= Len(s) /\ s[i] = NEWLINE THEN SkipBlanks(s, i + 1) ELSE i

JsonLoads(s) ==
  LET i == SkipBlanks(s, 1)
  IN IF i > Len(s) \/ s[i] # QUOTE THEN JsonError("Expecting value")
     ELSE ScanString(s, i + 1, <<>>)

SnippetChars == 240

(* ---- _try_manifest_generation, from the extracted text on ---- *)
(* manifest = json.loads(raw) succeeds; on to the write without a repair *)
tm_loads_ok_Repairing ==
  /\ tpc = "extracted"
  /\ JsonLoads(raw).ok
  /\ loads' = Append(loads, raw)
  /\ tpc' = "repair"
  /\ UNCHANGED <<raw, repaired, passes, content, twritten, terr>>
  /\ UNCHANGED <<llm_text, xpc, xout>>
  /\ UNCHANGED <<guardGlobals, guardVars, applierCfg, applyVars, manifestVars, mainArgs, workflowVars,
                 mainVars>>
tm_loads_ok ==
  /\ tpc = "extracted"
  /\ JsonLoads(raw).ok
  /\ loads' = Append(loads, raw)
  /\ content' = JsonLoads(raw).value
  /\ tpc' = "parsed"
  /\ UNCHANGED <<raw, repaired, passes, twritten, terr>>
  /\ UNCHANGED <<llm_text, xpc, xout>>
  /\ UNCHANGED <<guardGlobals, guardVars, applierCfg, applyVars, manifestVars, mainArgs, workflowVars,
                 mainVars>>

(* except json.JSONDecodeError *)
tm_loads_fails ==
  /\ tpc = "extracted"
  /\ ~JsonLoads(raw).ok
  /\ loads' = Append(loads, raw)
  /\ tpc' = "repair"
  /\ UNCHANGED <<raw, repaired, passes, content, twritten, terr>>
  /\ UNCHANGED <<llm_text, xpc, xout>>
  /\ UNCHANGED <<guardGlobals, guardVars, applierCfg, applyVars, manifestVars, mainArgs, workflowVars,
                 mainVars>>

(* repaired = _json_escape_repair_in_strings(raw) *)
tm_escape_repair ==
  /\ tpc = "repair"
  /\ repaired' = _json_escape_repair_in_strings(raw)
  /\ passes' = Append(passes, "escape_repair")
  /\ tpc' = "ctrl"
  /\ UNCHANGED <<raw, loads, content, twritten, terr>>
  /\ UNCHANGED <<llm_text, xpc, xout>>
  /\ UNCHANGED <<guardGlobals, guardVars, applierCfg, applyVars, manifestVars, mainArgs, workflowVars,
                 mainVars>>

(* repaired = _escape_ctrl_in_strings(repaired) *)
tm_escape_ctrl ==
  /\ tpc = "ctrl"
  /\ repaired' = _escape_ctrl_in_strings(repaired)
  /\ passes' = Append(passes, "escape_ctrl")
  /\ tpc' = "reparse"
  /\ UNCHANGED <<raw, loads, content, twritten, terr>>
  /\ UNCHANGED <<llm_text, xpc, xout>>
  /\ UNCHANGED <<guardGlobals, guardVars, applierCfg, applyVars, manifestVars, mainArgs, workflowVars,
                 mainVars>>

(* manifest = json.loads(repaired) *)
tm_reloads_ok ==
  /\ tpc = "reparse"
  /\ JsonLoads(repaired).ok
  /\ loads' = Append(loads, repaired)
  /\ content' = JsonLoads(repaired).value
  /\ tpc' = "parsed"
  /\ UNCHANGED <<raw, repaired, passes, twritten, terr>>
  /\ UNCHANGED <<llm_text, xpc, xout>>
  /\ UNCHANGED <<guardGlobals, guardVars, applierCfg, applyVars, manifestVars, mainArgs, workflowVars,
                 mainVars>>

(* except Exception as e2: raise RuntimeError(f"... {e2}\nSnippet:\n{snippet}") *)
tm_reloads_fails ==
  /\ tpc = "reparse"
  /\ ~JsonLoads(repaired).ok
  /\ loads' = Append(loads, repaired)
  /\ terr' = [type |-> "RuntimeError", msg |-> JsonLoads(repaired).msg,
              snippet |-> IF Len(raw) > SnippetChars
                          THEN Take(raw, SnippetChars) \o <<"...">> ELSE raw]
  /\ tpc' = "raised"
  /\ UNCHANGED <<raw, repaired, passes, content, twritten>>
  /\ UNCHANGED <<llm_text, xpc, xout>>
  /\ UNCHANGED <<guardGlobals, guardVars, applierCfg, applyVars, manifestVars, mainArgs, workflowVars,
                 mainVars>>

(* written = _write_files_from_manifest(repo, manifest, ...); return written:
   the file of the manifest gets its content string *)
tm_write ==
  /\ tpc = "parsed"
  /\ twritten' = Append(twritten, content)
  /\ tpc' = "returned"
  /\ UNCHANGED <<raw, repaired, loads, passes, content, terr>>
  /\ UNCHANGED <<llm_text, xpc, xout>>
  /\ UNCHANGED <<guardGlobals, guardVars, applierCfg, applyVars, manifestVars, mainArgs, workflowVars,
                 mainVars>>

InitRepair ==
  /\ DefaultGuardGlobals
  /\ IdleGuards
  /\ IdleApplier
  /\ IdleManifest
  /\ IdleMain
  /\ IdleExtract
  /\ IdleWorkflow
  /\ raw \in SeqsUpTo(JsonChars, MaxJsonChars)
  /\ repaired = <<>> /\ tpc = "extracted" /\ loads = <<>> /\ passes = <<>>
  /\ content = <<>> /\ twritten = <<>> /\ terr = NoTextError

NextRepair ==
  \/ tm_loads_ok \/ tm_loads_fails \/ tm_escape_repair \/ tm_escape_ctrl
  \/ tm_reloads_ok \/ tm_reloads_fails \/ tm_write

SpecRepair == InitRepair /\ [][NextRepair]_vars

(* ---- the repair passes called on a text, each by itself ---- *)
(* repaired = _json_escape_repair_in_strings(raw) *)
call_escape_repair ==
  /\ tpc = "text"
  /\ repaired' = _json_escape_repair_in_strings(raw)
  /\ passes' = <<"escape_repair">>
  /\ tpc' = "passed"
  /\ UNCHANGED <<raw, loads, content, twritten, terr>>
  /\ UNCHANGED <<llm_text, xpc, xout>>
  /\ UNCHANGED <<guardGlobals, guardVars, applierCfg, applyVars, manifestVars, mainArgs, workflowVars,
                 mainVars>>

(* the pass once more, on its own result; content keeps the first result *)
call_escape_repair_again ==
  /\ tpc = "passed" /\ passes = <<"escape_repair">>
  /\ content' = repaired
  /\ repaired' = _json_escape_repair_in_strings(repaired)
  /\ passes' = Append(passes, "escape_repair")
  /\ UNCHANGED <<raw, tpc, loads, twritten, terr>>
  /\ UNCHANGED <<llm_text, xpc, xout>>
  /\ UNCHANGED <<guardGlobals, guardVars, applierCfg, applyVars, manifestVars, mainArgs, workflowVars,
                 mainVars>>

(* repaired = _escape_ctrl_in_strings(raw) *)
call_escape_ctrl ==
  /\ tpc = "text"
  /\ repaired' = _escape_ctrl_in_strings(raw)
  /\ passes' = <<"escape_ctrl">>
  /\ tpc' = "passed"
  /\ UNCHANGED <<raw, loads, content, twritten, terr>>
  /\ UNCHANGED <<llm_text, xpc, xout>>
  /\ UNCHANGED <<guardGlobals, guardVars, applierCfg, applyVars, manifestVars, mainArgs, workflowVars,
                 mainVars>>

InitPasses ==
  /\ DefaultGuardGlobals
  /\ IdleGuards
  /\ IdleApplier
  /\ IdleManifest
  /\ IdleMain
  /\ IdleExtract
  /\ IdleWorkflow
  /\ raw \in SeqsUpTo(JsonChars, MaxJsonChars)
  /\ repaired = <<>> /\ tpc = "text" /\ loads = <<>> /\ passes = <<>>
  /\ content = <<>> /\ twritten = <<>> /\ terr = NoTextError

NextPasses == call_escape_repair \/ call_escape_repair_again \/ call_escape_ctrl

SpecPasses == InitPasses /\ [][NextPasses]_vars

(* ------------------------------------------- claims on the JSON extraction *)
(* the fenced objects of a text: an opening fence at i, optionally tagged
   json, then spaces only up to an opening brace at p; a closing brace at q
   that only spaces separate from a fence at e *)
FencedObjects(s) ==
  { t \in (DOMAIN s) \X (DOMAIN s) \X (DOMAIN s) :
      LET i == t[1]
          p == t[2]
          q == t[3]
      IN /\ i < p /\ p < q
         /\ s[i] = FENCE /\ s[p] = "{" /\ s[q] = "}"
         /\ \A k \in (i + 1)..(p - 1) : IsSpace(s[k]) \/ (k = i + 1 /\ s[k] = JSON_TAG)
         /\ \E e \in (q + 1)..Len(s) :
              s[e] = FENCE /\ \A k \in (q + 1)..(e - 1) : IsSpace(s[k]) }
(* the first of them: the leftmost fence, and for it the nearest closing brace *)
FirstFencedObject(s) ==
  CHOOSE t \in FencedObjects(s) :
    \A u \in FencedObjects(s) : t[1] < u[1] \/ (t[1] = u[1] /\ t[3] <= u[3])
OpeningBraces(s) == { p \in DOMAIN s : s[p] = "{" }
ClosingBraces(s) == { q \in DOMAIN s : s[q] = "}" }
Least(S) == CHOOSE x \in S : \A y \in S : x <= y
Greatest(S) == CHOOSE x \in S : \A y \in S : x >= y
(* an opening brace lies before the last closing brace *)
BraceSpan(s) ==
  /\ OpeningBraces(s) # {} /\ ClosingBraces(s) # {}
  /\ Least(OpeningBraces(s)) < Greatest(ClosingBraces(s))
(* and nothing but spaces follows that closing brace *)
BraceSpanAtEnd(s) ==
  /\ BraceSpan(s)
  /\ \A k \in (Greatest(ClosingBraces(s)) + 1)..Len(s) : IsSpace(s[k])
(* the first match in the order fenced, anchored at the end, first to last *)
OrderedMatch(s) ==
  IF FencedObjects(s) # {}
  THEN [NoExtract EXCEPT
          !.value = SubSeq(s, FirstFencedObject(s)[2], FirstFencedObject(s)[3])]
  ELSE IF BraceSpanAtEnd(s)
  THEN [NoExtract EXCEPT !.value = SubSeq(s, Least(OpeningBraces(s)), Len(s))]
  ELSE IF BraceSpan(s)
  THEN [NoExtract EXCEPT
          !.value = SubSeq(s, Least(OpeningBraces(s)), Greatest(ClosingBraces(s)))]
  ELSE [value |-> <<>>, error |-> "ValueError",
        msg |-> "No JSON object found in LLM output."]

(* C20 as stated: the result is the first match in the order (a) the object
   in a fenced block, (b) the span from an opening brace that is anchored at
   the end of the text, (c) first opening to last closing brace; with no
   match ValueError "No JSON object found" is raised; nothing else happens
   for any text. *)
C20_FirstMatchInOrder ==
  xpc \in {"returned", "raised"} => xout = OrderedMatch(llm_text)

(* C20, amended: the same for a text that is not blank; for an empty or
   blank text ValueError "Empty LLM response." is raised. *)
C20_FirstMatchInOrderUnlessBlank ==
  xpc \in {"returned", "raised"} =>
    xout = IF \A k \in DOMAIN llm_text : llm_text[k] = " "
           THEN [value |-> <<>>, error |-> "ValueError", msg |-> "Empty LLM response."]
           ELSE OrderedMatch(llm_text)

(* a text with a fenced object and with a closing brace at its end: the
   fenced object is returned, not the span that runs to the end *)
C20_Witness ==
  /\ xpc = "returned"
  /\ FencedObjects(llm_text) # {} /\ BraceSpanAtEnd(llm_text)
  /\ xout.value # SubSeq(llm_text, Least(OpeningBraces(llm_text)), Len(llm_text))

(* ------------------------------------- claims on the manifest parse and repair *)
BothPasses == <<"escape_repair", "escape_ctrl">>

(* C21: the extracted text is parsed strictly first and, when that succeeds,
   its value is used and no pass runs; the passes run only after a strict
   failure, escape repair then control-character escaping, followed by one
   re-parse of the repaired text; when the re-parse fails a RuntimeError with
   the decoder's message and a snippet of the text is raised and no file is
   written. *)
C21_StrictParseThenRepairOnce ==
  /\ tpc \notin {"idle", "extracted"} => (loads # <<>> /\ loads[1] = raw)
  /\ (loads # <<>> /\ JsonLoads(raw).ok) =>
       /\ passes = <<>> /\ Len(loads) = 1 /\ repaired = <<>>
       /\ tpc \in {"parsed", "returned"}
       /\ content = JsonLoads(raw).value
  /\ passes # <<>> => (loads # <<>> /\ ~JsonLoads(raw).ok)
  /\ \E k \in 0..2 : passes = SubSeq(BothPasses, 1, k)
  /\ Len(loads) <= 2
  /\ Len(loads) = 2 => (passes = BothPasses /\ loads[2] = repaired)
  /\ (tpc \in {"parsed", "returned", "raised"} /\ ~JsonLoads(raw).ok) => Len(loads) = 2
  /\ (Len(loads) = 2 /\ ~JsonLoads(loads[2]).ok) =>
       /\ tpc = "raised" /\ twritten = <<>>
       /\ terr.type = "RuntimeError"
       /\ terr.msg = JsonLoads(loads[2]).msg
       /\ terr.snippet = raw
  /\ tpc = "raised" => (Len(loads) = 2 /\ ~JsonLoads(loads[2]).ok)
  /\ twritten # <<>> => (tpc = "returned" /\ twritten = <<content>>)

(* a call whose strict parse failed, whose passes changed the text, and whose
   re-parse failed as well *)
C21_Witness ==
  /\ tpc = "raised" /\ passes = BothPasses
  /\ repaired # raw /\ Len(loads) = 2 /\ twritten = <<>>

(* the content a manifest text was written for, when its string literal is
   read leniently from character i on: a backslash before a quote or a
   backslash escapes it, a backslash before a letter of keep stands for
   itself, a backslash before another letter is the JSON escape.  The result
   is <<"none">> when the text has a defect other than a backslash before a
   character outside the escape set. *)
Undecodable == <<"none">>
RECURSIVE LenientBody(_, _, _, _)
LenientBody(s, i, keep, acc) ==
  IF i > Len(s) \/ s[i] = NEWLINE THEN Undecodable
  ELSE IF s[i] = QUOTE
  THEN IF \A k \in (i + 1)..Len(s) : s[k] = NEWLINE THEN acc ELSE Undecodable
  ELSE IF s[i] # BACKSLASH THEN LenientBody(s, i + 1, keep, Append(acc, s[i]))
  ELSE IF i + 1 > Len(s) \/ s[i + 1] = NEWLINE THEN Undecodable
  ELSE IF s[i + 1] \in {QUOTE, BACKSLASH}
  THEN LenientBody(s, i + 2, keep, Append(acc, s[i + 1]))
  ELSE IF s[i + 1] \in keep
  THEN LenientBody(s, i + 2, keep, acc \o <<BACKSLASH, s[i + 1]>>)
  ELSE LenientBody(s, i + 2, keep, Append(acc, NEWLINE))
Lenient(s, keep) ==
  LET i == CHOOSE j \in 1..(Len(s) + 1) :
             /\ \A k \in 1..(j - 1) : s[k] = NEWLINE
             /\ j <= Len(s) => s[j] # NEWLINE
  IN IF i > Len(s) \/ s[i] # QUOTE THEN Undecodable
     ELSE LenientBody(s, i + 1, keep, <<>>)
(* the text has a backslash before a character outside the escape set inside
   its string, and that is its only defect *)
OnlyBadEscapes(s) == Lenient(s, {"D"}) # Undecodable /\ ~JsonLoads(s).ok

(* C22 as stated: for a text whose only defect is a backslash before a
   character outside the escape set, the repair followed by the parse
   succeeds, and the content has every backslash that the text has before a
   letter exactly once. *)
C22_RepairKeepsEveryBackslash ==
  (OnlyBadEscapes(raw) /\ Len(loads) = 2) =>
    /\ JsonLoads(_json_escape_repair_in_strings(raw)).ok
    /\ tpc \in {"parsed", "returned"}
    /\ content = Lenient(raw, {"D", "n"})

(* C22, amended: the content has every backslash that the text has before a
   character outside the escape set exactly once; a backslash before a
   character of the escape set is decoded as the JSON escape it spells. *)
C22_RepairKeepsEveryInvalidBackslash ==
  (OnlyBadEscapes(raw) /\ Len(loads) = 2) =>
    /\ JsonLoads(_json_escape_repair_in_strings(raw)).ok
    /\ tpc \in {"parsed", "returned"}
    /\ content = Lenient(raw, {"D"})

(* a repaired text with two backslashes before letters outside the escape
   set, both in the content that was written *)
C22_Witness ==
  /\ tpc = "returned" /\ passes = BothPasses /\ OnlyBadEscapes(raw)
  /\ twritten = << <<BACKSLASH, "D", BACKSLASH, "D">> >>

(* what each character of a text is: "out" outside string literals, "open"
   and "close" the quotes of a literal, "esc" the backslash that starts an
   escape, "escd" the character it escapes, "plain" any other character of a
   literal.  Classes(t, n) classifies the first n characters. *)
RECURSIVE Classes(_, _)
Classes(t, n) ==
  IF n = 0 THEN <<>>
  ELSE LET before == Classes(t, n - 1)
           last   == IF n = 1 THEN "out" ELSE before[n - 1]
       IN Append(before,
            IF last \in {"out", "close"}
            THEN (IF t[n] = QUOTE THEN "open" ELSE "out")
            ELSE IF last = "esc" THEN "escd"
            ELSE IF t[n] = BACKSLASH THEN "esc"
            ELSE IF t[n] = QUOTE THEN "close"
            ELSE "plain")
ClassOf(t) == Classes(t, Len(t))
InsideLiteral(c) == c \in {"esc", "escd", "plain"}
(* the text with a backslash put before every escaped character that is
   outside the escape set *)
RECURSIVE WithEscapesCompleted(_, _)
WithEscapesCompleted(t, n) ==
  IF n = 0 THEN <<>>
  ELSE WithEscapesCompleted(t, n - 1)
       \o (IF ClassOf(t)[n] = "escd" /\ t[n] \notin {QUOTE, BACKSLASH, "n"}
           THEN <<BACKSLASH, t[n]>> ELSE <<t[n]>>)

(* C26: after _json_escape_repair_in_strings every escape inside a string
   literal is followed by a character of the escape set; the result is the
   text with one backslash more before each escaped character outside that
   set and nothing else changed; the pass applied to its own result changes
   nothing. *)
C26_RepairCompletesEscapesOnly ==
  /\ (tpc = "passed" /\ passes = <<"escape_repair">>) =>
       /\ \A i \in 1..(Len(repaired) - 1) :
            ClassOf(repaired)[i] = "esc" => repaired[i + 1] \in {QUOTE, BACKSLASH, "n"}
       /\ repaired = WithEscapesCompleted(raw, Len(raw))
  /\ (tpc = "passed" /\ passes = <<"escape_repair", "escape_repair">>) =>
       repaired = content

(* the pass run twice on a text with a valid and an invalid escape, both
   results the text with the one backslash more *)
C26_Witness ==
  /\ tpc = "passed" /\ passes = <<"escape_repair", "escape_repair">>
  /\ repaired # raw /\ Len(repaired) = Len(raw) + 1
  /\ \E i \in 1..(Len(raw) - 1) : ClassOf(raw)[i] = "esc" /\ raw[i + 1] = "n"

(* the characters of a text that are not inside a string literal, in order *)
RECURSIVE OutsideLiterals(_, _)
OutsideLiterals(t, n) ==
  IF n = 0 THEN <<>>
  ELSE OutsideLiterals(t, n - 1)
       \o (IF InsideLiteral(ClassOf(t)[n]) THEN <<>> ELSE <<t[n]>>)

(* C27: after _escape_ctrl_in_strings no literal newline is left inside a
   string literal, one that directly follows a backslash included, and the
   characters outside string literals are what they were. *)
C27_NoControlCharacterLeftInStrings ==
  (tpc = "passed" /\ passes = <<"escape_ctrl">>) =>
    /\ \A i \in DOMAIN repaired :
         InsideLiteral(ClassOf(repaired)[i]) => repaired[i] # NEWLINE
    /\ OutsideLiterals(repaired, Len(repaired)) = OutsideLiterals(raw, Len(raw))

(* ======================= cli/workflow.py and agents/workflow_agent.py *)
(* what git status --porcelain reports after git add -A: the changes of the
   working tree that no commit holds yet *)
RECURSIVE Committed(_)
Committed(cs) ==
  IF cs = <<>> THEN [applied |-> {}, written |-> {}]
  ELSE LET r == Committed(Tail(cs))
       IN [applied |-> Head(cs).applied \cup r.applied,
           written |-> Head(cs).written \cup r.written]
Uncommitted ==
  [applied |-> WorkingChanges.applied \ Committed(commits).applied,
   written |-> WorkingChanges.written \ Committed(commits).written]

(* if args.llm_enabled and not args.dry_run: run_llm_patch(...) starts
   ai_dev_task.py as a process *)
w_run_llm_patch ==
  /\ wkpc = "branch" /\ llm_enabled /\ ~dry_run
  /\ mpc = "idle"
  /\ mpc' = "start"
  /\ wkpc' = "llm"
  /\ UNCHANGED <<rc, manifest_attempts, commits, pushes, llm_enabled, dry_run, llm_ok>>
  /\ UNCHANGED <<guardGlobals, guardVars, applierCfg, applyVars, manifestVars, mainArgs, textVars>>

(* the LLM step is not taken *)
w_skip_llm_patch ==
  /\ wkpc = "branch" /\ ~(llm_enabled /\ ~dry_run)
  /\ wkpc' = "commit"
  /\ UNCHANGED <<llm_enabled, dry_run, llm_ok>>
  /\ UNCHANGED <<guardGlobals, guardVars, applierCfg, applyVars, manifestVars, mainArgs,
                 mainVars, textVars>>

(* run_llm_patch returns proc.returncode == 0 (a process left by an
   exception exits with 1); if not ok: print a warning; the commit step
   follows either way *)
w_llm_patch_returned ==
  /\ wkpc = "llm" /\ mpc \in {"done", "crashed"}
  /\ llm_ok' = (rc = 0)
  /\ wkpc' = "commit"
  /\ UNCHANGED <<llm_enabled, dry_run>>
  /\ UNCHANGED <<guardGlobals, guardVars, applierCfg, applyVars, manifestVars, mainArgs,
                 mainVars, textVars>>

(* agent.commit_and_push: git add -A; with no changes the branch is pushed;
   else git commit and git push; a failing push raises, which main catches;
   with dry_run no git command runs *)
w_commit_and_push ==
  /\ wkpc = "commit"
  /\ wkpc' = "mr"
  /\ IF dry_run
     THEN UNCHANGED <<commits, pushes>>
     ELSE /\ commits' = IF Uncommitted = Committed(<<>>) THEN commits
                        ELSE Append(commits, Uncommitted)
          /\ pushes' \in {pushes, pushes + 1}
  /\ UNCHANGED <<mpc, rc, manifest_attempts, llm_enabled, dry_run, llm_ok>>
  /\ UNCHANGED <<guardGlobals, guardVars, applierCfg, applyVars, manifestVars, mainArgs, textVars>>

(* the workflow on a checkout, its branch created; ai_dev_task.py is started
   without --force-manifest and --allow-outside-custom *)
InitWorkflow ==
  /\ IdleText
  /\ ALLOWED_PREFIXES = _ALLOWED_DEFAULT
  /\ BLOCKED_PREFIXES = _BLOCKED_DEFAULT
  /\ MAX_CHANGED_FILES = DefaultMaxChangedFiles
  /\ MAX_TOTAL_LINES = DefaultMaxTotalLines
  /\ IdleGuards
  /\ IdleApplier
  /\ allow_outside_custom = FALSE
  /\ force_manifest = FALSE
  /\ llm_disabled \in BOOLEAN
  /\ \E co \in Checkouts :
       /\ REPO \o <<".git">> \in co.dirs
       /\ fs_dirs = co.dirs /\ fs_files = co.files
  /\ docroot = "" /\ mf_allowed = <<>> /\ manifest = [files |-> <<>>]
  /\ wi = 0 /\ written = <<>> /\ wpc = "idle" /\ werr = NoWriteError
  /\ mpc = "idle" /\ rc = -1 /\ manifest_attempts = 0 /\ commits = <<>> /\ pushes = 0
  /\ llm_enabled \in BOOLEAN /\ dry_run \in BOOLEAN
  /\ wkpc = "branch" /\ llm_ok = FALSE

NextWorkflow ==
  \/ w_run_llm_patch \/ w_skip_llm_patch \/ w_llm_patch_returned \/ w_commit_and_push
  \/ m_start \/ m_disabled \/ m_generate_patch
  \/ m_patch_applied \/ m_patch_apply_error \/ m_patch_crash
  \/ m_commit_patch \/ m_push_patch \/ m_push_patch_fails
  \/ m_manifest_invalid \/ m_manifest_parsed \/ m_manifest_written
  \/ m_manifest_failed \/ m_commit_manifest \/ m_push_manifest
  \/ m_push_manifest_fails
  \/ ap_parse \/ ap_filter \/ ap_reject \/ ap_assemble
  \/ ap_write_scratch \/ ap_write_scratch_fails
  \/ ap_run_cannot_launch \/ ap_run
  \/ wf_no_files \/ wf_begin \/ wf_entry_not_dict \/ wf_entry_skip
  \/ wf_entry_reject \/ wf_entry_write \/ wf_return

SpecWorkflow == InitWorkflow /\ [][NextWorkflow]_vars

(* ------------------------------- claims on the entries of a manifest *)
(* the positions of the entries that have a string path and a string content *)
ValidPositions(fs) == { i \in DOMAIN fs : BothStrings(fs[i]) }
(* the absolute location an entry is written to *)
EntryTarget(e) == ResolveTarget(_normalize_repo_path(e.path, docroot))
(* the locations of the valid entries of fs, in the order of fs *)
RECURSIVE ValidTargets(_)
ValidTargets(fs) ==
  IF fs = <<>> THEN <<>>
  ELSE IF BothStrings(fs[Len(fs)])
       THEN Append(ValidTargets(SubSeq(fs, 1, Len(fs) - 1)), EntryTarget(fs[Len(fs)]))
  ELSE ValidTargets(SubSeq(fs, 1, Len(fs) - 1))

(* C23: an element of the files array that lacks a string path or a string
   content, whatever its shape, is skipped without an error (the call never
   stops at such an element), every other entry is still validated and
   written, and the list returned holds the locations of exactly the written
   entries, in manifest order. *)
C23_InvalidEntriesAreSkipped ==
  /\ (wpc = "raised" /\ wi \in DOMAIN manifest.files) => BothStrings(manifest.files[wi])
  /\ wpc = "returned" => written = ValidTargets(manifest.files)

(* a manifest write has been started on a manifest with no valid entry *)
ZeroValidEntries == wpc # "idle" /\ ValidPositions(manifest.files) = {}
(* no file has been written, and the run has neither committed nor pushed *)
NothingWrittenNorCommitted ==
  /\ written = <<>> /\ WorkingChanges.written = {}
  /\ commits = <<>> /\ pushes = 0

(* C24 as stated: a manifest with zero valid file entries (no files list, an
   empty one, or one in which no entry has a string path and a string
   content) makes the manifest write raise; nothing is written and the run
   neither commits nor pushes. *)
C24_ZeroValidEntriesRaise ==
  ZeroValidEntries =>
    /\ wpc # "returned"
    /\ NothingWrittenNorCommitted
    /\ mpc = "done" => rc # 0

(* C24, amended: for such a manifest the write raises when the list is
   missing or empty or holds an element that is not an object, and the run
   returns 8; it returns an empty list when every element is an object
   lacking a string path or content, and the run reports "Manifest produced
   no files" and returns 7; either way nothing is written and the run
   neither commits nor pushes. *)
C24_ZeroValidEntriesFailTheRun ==
  ZeroValidEntries =>
    /\ NothingWrittenNorCommitted
    /\ wpc = "raised" =>
         \/ manifest.files = <<>>
         \/ \E i \in DOMAIN manifest.files : manifest.files[i].shape # "dict"
    /\ wpc = "returned" =>
         \A i \in DOMAIN manifest.files : manifest.files[i].shape = "dict"
    /\ mpc \notin {"commit_manifest", "push_manifest"}
    /\ mpc = "done" => rc = (IF wpc = "raised" THEN 8 ELSE 7)

(* a run that ended on a manifest whose only entries lack a path *)
C24_Witness ==
  /\ ZeroValidEntries /\ manifest.files # <<>>
  /\ mpc = "done" /\ wpc = "returned" /\ rc = 7

(* the path starts with "modules/", "web/" or "docroot/" *)
ConventionalStart(p) ==
  Len(p) >= 2 /\ p[1] \in {"modules", "web", "docroot"} /\ p[2] = "/"
(* the same path under the detected document root *)
UnderDocroot(p) ==
  IF p[1] = "modules" THEN <<docroot, "/">> \o p ELSE <<docroot>> \o Tail(p)
(* allowed_dirs is the custom modules directory of the document root *)
CustomOnly == mf_allowed = << <<docroot, "/", "modules", "/", "custom", "/">> >>
(* the file at the path, taken from the repository root, holds the text *)
FileHolds(files, p, text) == [loc |-> REPO \o Segments(p), content |-> text] \in files
(* the loop is at a valid entry whose path has a conventional start *)
AtConventionalEntry ==
  /\ wpc = "loop" /\ wi \in DOMAIN manifest.files
  /\ BothStrings(manifest.files[wi])
  /\ ConventionalStart(manifest.files[wi].path)

(* C25 as stated: the path of an entry that starts with "modules/", "web/"
   or "docroot/" is rewritten to start with the detected document root,
   normalizing the result again changes nothing, and with the custom modules
   directory as the only allowed directory the entry passes validation and
   the file at the normalized path holds exactly the entry's content. *)
C25_NormalizedThenWrittenVerbatim ==
  [][ AtConventionalEntry =>
        LET e == manifest.files[wi]
            n == _normalize_repo_path(e.path, docroot)
        IN /\ n = UnderDocroot(e.path)
           /\ _normalize_repo_path(n, docroot) = n
           /\ CustomOnly => /\ wpc' = "loop"
                            /\ FileHolds(fs_files', n, e.content) ]_vars

(* C25, amended: the path is rewritten and the rewriting is idempotent as
   stated; with the custom modules directory as the only allowed directory
   the entry passes validation when the normalized path lies in that
   directory (and is rejected otherwise), and the file at the normalized path
   then holds the entry's content, which for a .php, .module or .inc path
   has first gone through the PHP clean-up. *)
C25_NormalizedThenWrittenSanitized ==
  [][ AtConventionalEntry =>
        LET e == manifest.files[wi]
            n == _normalize_repo_path(e.path, docroot)
            custom == REPO \o <<docroot, "modules", "custom">>
            php == n[Len(n)] = "x.module"
        IN /\ n = UnderDocroot(e.path)
           /\ _normalize_repo_path(n, docroot) = n
           /\ CustomOnly =>
                IF StrictlyInside(AbsResolveFrom(Segments(n), REPO), custom)
                THEN /\ wpc' = "loop"
                     /\ FileHolds(fs_files', n,
                                  IF php THEN _php_sanitize(e.content) ELSE e.content)
                ELSE wpc' = "raised" /\ fs_files' = fs_files ]_vars

(* the scenario of the claim: "modules/custom/x.module" has been written as
   "web/modules/custom/x.module", with its content *)
C25_Witness ==
  /\ wpc = "returned" /\ docroot = "web" /\ CustomOnly
  /\ manifest.files = <<Entry(M_module, "<?php\n")>>
  /\ fs_files = {[loc |-> REPO \o <<"web", "modules", "custom", "x.module">>,
                  content |-> "<?php\n"]}

(* ------------------------------------------- claims on the order of main *)
(* the run is over: main returned or was left by an exception *)
RunOver == mpc \in {"done", "crashed"}
(* the run got as far as asking the LLM *)
AskedLLM == RunOver /\ rc # 2 /\ ~llm_disabled
(* the diff attempt ended with a pushed commit *)
DiffPushed == apc = "AppliedOk" /\ pushes = 1
(* the LLM output held no valid unified diff, or apply_patch raised
   PatchApplyError *)
DiffRefused ==
  \/ apc = "idle" /\ ~_looks_like_unified_diff(patch_text)
  \/ apc \in {"Rejected", "AppliedFailed"}
(* what C28 says of every step: the manifest attempt starts only once the
   apply has terminated, a commit follows a successful apply or a manifest
   write that returned a file, a push follows that commit, and 0 is returned
   only after that push or with the LLM disabled *)
OrderOfMain ==
  /\ manifest_attempts' \in {0, 1}
  /\ manifest_attempts' # manifest_attempts =>
       apc \in {"idle", "Rejected", "AppliedFailed"} /\ ~tmp_exists
  /\ commits' # commits =>
       /\ commits = <<>> /\ Len(commits') = 1
       /\ \/ apc = "AppliedOk" /\ manifest_attempts = 0
          \/ wpc = "returned" /\ written # <<>> /\ manifest_attempts = 1
  /\ pushes' # pushes => pushes = 0 /\ pushes' = 1 /\ Len(commits) = 1
  /\ rc' = 0 => pushes' = 1 \/ llm_disabled

(* C28 as stated: whenever the diff attempt does not end with a pushed
   commit, the manifest attempt is made exactly once, and only after the
   apply has terminated; commit, push and the return code 0 follow in that
   order. *)
C28_ManifestWheneverDiffNotPushed ==
  [][ /\ OrderOfMain
      /\ (AskedLLM' /\ ~DiffPushed') => manifest_attempts' = 1 ]_vars

(* C28, amended: the manifest attempt is made exactly once when the LLM
   output holds no valid unified diff or apply_patch raised PatchApplyError;
   when the diff attempt fails in another way (apply_patch raises another
   exception, the commit or the push after a successful apply fails) main is
   left by that exception and no manifest attempt is made; commit, push and
   the return code 0 follow in the stated order. *)
C28_ManifestWhenDiffRefused ==
  [][ /\ OrderOfMain
      /\ (AskedLLM' /\ DiffRefused') => manifest_attempts' = 1
      /\ (AskedLLM' /\ ~DiffRefused' /\ ~DiffPushed') =>
           /\ manifest_attempts' = 0
           /\ mpc' = "crashed" ]_vars

(* a run in which apply_patch refused the diff and the manifest attempt that
   followed ended with a pushed commit *)
C28_Witness ==
  /\ mpc = "done" /\ rc = 0 /\ apc = "Rejected"
  /\ manifest_attempts = 1 /\ Len(commits) = 1 /\ pushes = 1

(* ------------------- claims on the two readers of the diff header lines *)
(* C29: for every patch text the set of paths assess_patch_risk reports as
   changed equals the set of target paths on which PatchApplier bases its
   allowlist decision: a header line recognised by one is recognised by the
   other and resolved to the same path, so no block is applied whose target
   was not assessed. *)
C29_AssessedPathsAreTheTargets ==
  apc \notin {"idle", "start"} =>
    LET files == assess_patch_risk(patch_text).files
    IN { files[i] : i \in DOMAIN files } = { blocks[k].tgt : k \in DOMAIN blocks }

(* ------------------------------------------------ claims on the workflow *)
(* the locations a manifest write wrote before it was rejected *)
WrittenByRejectedWrite ==
  IF wpc = "raised" /\ werr.msg = "Path not allowed by guardrails"
  THEN { written[i] : i \in DOMAIN written }
  ELSE {}

(* C30: when the code-generation step of the workflow ends with a guardrail
   violation, no commit that commit_and_push creates contains a file written
   by the manifest write that was rejected. *)
C30_RejectedWriteNotCommitted ==
  wkpc = "mr" =>
    \A k \in DOMAIN commits : commits[k].written \cap WrittenByRejectedWrite = {}

====
